---------------------------- MODULE Spec2Model ----------------------------
(***************************************************************************)
(* A model of the iAcoes valuation engine (scripts/valuation.ts) and of    *)
(* the page generator that drives it (scripts/generate-pages.ts).          *)
(*                                                                         *)
(* JavaScript numbers are modelled as extended rationals: an exact         *)
(* fraction, +Infinity, -Infinity or NaN.  The arithmetic follows IEEE-754 *)
(* for the special values (x/0, Infinity - Infinity, 0 * Infinity, NaN     *)
(* propagation, Math.max/Math.min on NaN and on the empty list); rounding  *)
(* of finite results and the sign of zero are not modelled.                *)
(***************************************************************************)
EXTENDS Integers, Sequences, FiniteSets, TLC

(***************************************************************************)
(* Natural numbers of arbitrary size: little-endian sequences of limbs in  *)
(* base 10^4 with no leading zero limb; << >> is 0.                         *)
(***************************************************************************)
Base == 100 * 100

RECURSIVE NOfInt(_)
NOfInt(k) == IF k = 0 THEN << >> ELSE << k % Base >> \o NOfInt(k \div Base)

RECURSIVE NTrim(_)
NTrim(a) ==
  IF a = << >> THEN a
  ELSE IF a[Len(a)] = 0 THEN NTrim(SubSeq(a, 1, Len(a) - 1)) ELSE a

\* the lowest limb of a natural (0 for 0) and the limbs above it
Limb(a) == IF a = << >> THEN 0 ELSE a[1]
Rest(a) == IF a = << >> THEN a ELSE Tail(a)

RECURSIVE NAddC(_, _, _)
NAddC(a, b, c) ==
  IF a = << >> /\ b = << >> THEN (IF c = 0 THEN << >> ELSE << c >>)
  ELSE IF b = << >> /\ c = 0 THEN a
  ELSE IF a = << >> /\ c = 0 THEN b
  ELSE << (Limb(a) + Limb(b) + c) % Base >>
       \o NAddC(Rest(a), Rest(b), (Limb(a) + Limb(b) + c) \div Base)

NAdd(a, b) == NAddC(a, b, 0)

\* a - b for a >= b
RECURSIVE NSubB(_, _, _)
NSubB(a, b, c) ==
  IF a = << >> THEN << >>
  ELSE IF b = << >> /\ c = 0 THEN a
  ELSE << (a[1] - Limb(b) - c + Base) % Base >>
       \o NSubB(Tail(a), Rest(b), IF a[1] - Limb(b) - c < 0 THEN 1 ELSE 0)

NSub(a, b) == NTrim(NSubB(a, b, 0))

RECURSIVE NCmpAt(_, _, _)
NCmpAt(a, b, i) ==
  IF i = 0 THEN 0
  ELSE IF a[i] < b[i] THEN -1
  ELSE IF a[i] > b[i] THEN 1
  ELSE NCmpAt(a, b, i - 1)

\* -1, 0 or 1 as a < b, a = b, a > b
NCmp(a, b) ==
  IF Len(a) < Len(b) THEN -1
  ELSE IF Len(a) > Len(b) THEN 1
  ELSE NCmpAt(a, b, Len(a))

RECURSIVE NMulLimb(_, _, _)
NMulLimb(a, m, c) ==
  IF a = << >> THEN (IF c = 0 THEN << >> ELSE << c >>)
  ELSE << (a[1] * m + c) % Base >> \o NMulLimb(Tail(a), m, (a[1] * m + c) \div Base)

RECURSIVE NMulR(_, _)
NMulR(a, b) ==
  IF Len(b) = 1 THEN NMulLimb(a, b[1], 0)
  ELSE NAddC(NMulLimb(a, b[1], 0), << 0 >> \o NMulR(a, Tail(b)), 0)

NMul(a, b) ==
  IF a = << >> \/ b = << >> THEN << >>
  ELSE IF Len(a) >= Len(b) THEN NTrim(NMulR(a, b)) ELSE NTrim(NMulR(b, a))

NOne == << 1 >>

(***************************************************************************)
(* JavaScript numbers.  A finite number is a sign s in {-1, 0, 1} and a    *)
(* fraction n/d of naturals with d > 0 (n = 0 exactly when s = 0).         *)
(***************************************************************************)
RECURSIVE GCD(_, _)
GCD(a, b) == IF b = 0 THEN a ELSE GCD(b, a % b)

\* limbs of a natural below Base^2 as an integer, and back
NSmall(a) == Len(a) <= 2
NToInt(a) == IF a = << >> THEN 0 ELSE IF Len(a) = 1 THEN a[1] ELSE a[1] + Base * a[2]

\* the fraction s * p / q of integers p, q with common divisor g
Reduced(s, p, q, g) ==
  [k |-> "fin", s |-> s, n |-> NOfInt(p \div g), d |-> NOfInt(q \div g)]

\* the fraction s * n / d, in lowest terms when n and d are both below Base^2
\* and with common factors of Base removed otherwise
RECURSIVE Fin(_, _, _)
Fin(s, n, d) ==
  IF NSmall(n) /\ NSmall(d)
  THEN Reduced(s, NToInt(n), NToInt(d), GCD(NToInt(n), NToInt(d)))
  ELSE IF n[1] = 0 /\ d[1] = 0 THEN Fin(s, Tail(n), Tail(d))
  ELSE [k |-> "fin", s |-> s, n |-> n, d |-> d]
Inf(s) == [k |-> "inf", s |-> s]
NaN == [k |-> "nan"]
Zero == [k |-> "fin", s |-> 0, n |-> << >>, d |-> NOne]
One == [k |-> "fin", s |-> 1, n |-> NOne, d |-> NOne]

\* the number p/q for integers p and q > 0
Num(p, q) ==
  IF p = 0 THEN Zero
  ELSE Fin(IF p < 0 THEN -1 ELSE 1, NOfInt(IF p < 0 THEN -p ELSE p), NOfInt(q))

IsFinite(x) == x.k = "fin"
IsNaN(x) == x.k = "nan"
Sign(x) == x.s

Neg(x) ==
  IF x.k = "nan" THEN NaN
  ELSE IF x.k = "inf" THEN Inf(-x.s)
  ELSE [x EXCEPT !.s = -x.s]

\* s1 * a / d + s2 * b / d for signs s1, s2 and naturals a, b, d > 0
AddOver(s1, a, s2, b, d) ==
  IF s1 = s2 THEN Fin(s1, NAdd(a, b), d)
  ELSE IF NCmp(a, b) = 0 THEN Zero
  ELSE IF NCmp(a, b) > 0 THEN Fin(s1, NSub(a, b), d)
  ELSE Fin(s2, NSub(b, a), d)

\* x + y
Add(x, y) ==
  IF x.k = "nan" \/ y.k = "nan" THEN NaN
  ELSE IF x.k = "inf" /\ y.k = "inf" THEN (IF x.s = y.s THEN x ELSE NaN)
  ELSE IF x.k = "inf" THEN x
  ELSE IF y.k = "inf" THEN y
  ELSE IF x.s = 0 THEN y
  ELSE IF y.s = 0 THEN x
  ELSE IF x.d = y.d THEN AddOver(x.s, x.n, y.s, y.n, x.d)
  ELSE AddOver(x.s, NMul(x.n, y.d), y.s, NMul(y.n, x.d), NMul(x.d, y.d))

Sub(x, y) == Add(x, Neg(y))

\* x * y
Mul(x, y) ==
  IF x.k = "nan" \/ y.k = "nan" THEN NaN
  ELSE IF x.k = "inf" \/ y.k = "inf"
    THEN (IF x.s = 0 \/ y.s = 0 THEN NaN ELSE Inf(x.s * y.s))
  ELSE IF x.s = 0 \/ y.s = 0 THEN Zero
  ELSE Fin(x.s * y.s, NMul(x.n, y.n), NMul(x.d, y.d))

\* x / y
Div(x, y) ==
  IF x.k = "nan" \/ y.k = "nan" THEN NaN
  ELSE IF x.k = "inf" THEN
    (IF y.k = "inf" THEN NaN ELSE Inf(IF y.s < 0 THEN -x.s ELSE x.s))
  ELSE IF y.k = "inf" THEN Zero
  ELSE IF y.s = 0 THEN (IF x.s = 0 THEN NaN ELSE Inf(x.s))
  ELSE IF x.s = 0 THEN Zero
  ELSE Fin(x.s * y.s, NMul(x.n, y.d), NMul(x.d, y.n))

\* -1, 0, 1 as x < y, x = y, x > y; both not NaN
Cmp(x, y) ==
  IF x.k = "inf" THEN (IF y.k = "inf" /\ y.s = x.s THEN 0 ELSE x.s)
  ELSE IF y.k = "inf" THEN -y.s
  ELSE IF x.s # y.s THEN (IF x.s < y.s THEN -1 ELSE 1)
  ELSE IF x.s = 0 THEN 0
  ELSE x.s * NCmp(NMul(x.n, y.d), NMul(y.n, x.d))

\* the comparisons of the language: every comparison with NaN is false
Lt(x, y) == x.k # "nan" /\ y.k # "nan" /\ Cmp(x, y) < 0
Le(x, y) == x.k # "nan" /\ y.k # "nan" /\ Cmp(x, y) <= 0
Gt(x, y) == Lt(y, x)
Ge(x, y) == Le(y, x)
\* x === y
Eq(x, y) == x.k # "nan" /\ y.k # "nan" /\ Cmp(x, y) = 0
\* the same value: x === y, or both NaN
Same(x, y) == (x.k = "nan" /\ y.k = "nan") \/ Eq(x, y)

\* Math.max(x, y) and Math.min(x, y)
Max2(x, y) ==
  IF x.k = "nan" \/ y.k = "nan" THEN NaN ELSE IF Cmp(x, y) >= 0 THEN x ELSE y
Min2(x, y) ==
  IF x.k = "nan" \/ y.k = "nan" THEN NaN ELSE IF Cmp(x, y) <= 0 THEN x ELSE y

\* floor of the square root of an integer 0 <= m < Base^2, by bisection
RECURSIVE ISqrtB(_, _, _)
ISqrtB(m, lo, hi) ==
  IF lo = hi THEN lo
  ELSE IF ((lo + hi + 1) \div 2) * ((lo + hi + 1) \div 2) <= m
       THEN ISqrtB(m, (lo + hi + 1) \div 2, hi)
       ELSE ISqrtB(m, lo, ((lo + hi + 1) \div 2) - 1)
ISqrt(m) == ISqrtB(m, 0, IF m < Base THEN m ELSE Base)
IsSquare(m) == ISqrt(m) * ISqrt(m) = m

\* Math.sqrt(x).  The root of a fraction in lowest terms is a fraction exactly
\* when numerator and denominator are squares; any other root is irrational
\* and is kept as the symbol [k |-> "irr"], on which no arithmetic is defined.
Sqrt(x) ==
  IF x.k = "nan" THEN NaN
  ELSE IF x.k = "inf" THEN (IF x.s > 0 THEN x ELSE NaN)
  ELSE IF x.s < 0 THEN NaN
  ELSE IF x.s = 0 THEN x
  ELSE IF NSmall(x.n) /\ NSmall(x.d) /\ IsSquare(NToInt(x.n)) /\ IsSquare(NToInt(x.d))
       THEN Fin(1, NOfInt(ISqrt(NToInt(x.n))), NOfInt(ISqrt(NToInt(x.d))))
       ELSE [k |-> "irr", sq |-> x]

\* Math.pow(x, i) for an integer i >= 0
RECURSIVE Pow(_, _)
Pow(x, i) == IF i = 0 THEN One ELSE Mul(x, Pow(x, i - 1))

(***************************************************************************)
(* scripts/valuation.ts: cost of capital and the five valuation methods.   *)
(* `data` is a FinancialData record, `a` a ValuationAssumptions record.    *)
(***************************************************************************)
TaxRate == Num(34, 100)
ImpliedKdMin == Num(1, 100)
ImpliedKdMax == Num(60, 100)

\* rawKd with the ends of the band left out
RawKd_OpenBand(data, a, implied) ==
  IF Gt(data.debt, Zero) /\ Gt(data.interestExpenses, Zero)
     /\ Gt(implied, ImpliedKdMin) /\ Lt(implied, ImpliedKdMax)
  THEN implied ELSE a.costOfDebt

\* rawKd: the implied cost of debt inside its band, a.costOfDebt otherwise
RawKd(data, a, implied) ==
  IF Gt(data.debt, Zero) /\ Gt(data.interestExpenses, Zero)
     /\ Ge(implied, ImpliedKdMin) /\ Le(implied, ImpliedKdMax)
  THEN implied ELSE a.costOfDebt

\* the returned record without the case V === 0
WaccOf_NoZeroGuard(ke, kdNet, E, D, V) ==
  [wacc |-> Add(Div(Mul(ke, E), V), Div(Mul(kdNet, D), V)), ke |-> ke]

\* the returned record, from the consts ke, kdNet, E, D and V
WaccOf(ke, kdNet, E, D, V) ==
  IF Eq(V, Zero) THEN [wacc |-> ke, ke |-> ke]
  ELSE [wacc |-> Add(Div(Mul(ke, E), V), Div(Mul(kdNet, D), V)), ke |-> ke]

\* calculateWacc with the tax rate of the assumptions in kdNet
calculateWacc_AssumedTaxRate(data, a) ==
  WaccOf(Add(a.riskFreeRate, Mul(a.beta, a.equityRiskPremium)),
         Mul(RawKd(data, a, Div(data.interestExpenses, data.debt)), Sub(One, a.taxRate)),
         Mul(data.price, data.sharesOutstanding),
         data.debt,
         Add(Mul(data.price, data.sharesOutstanding), data.debt))

calculateWacc(data, a) ==
  WaccOf(Add(a.riskFreeRate, Mul(a.beta, a.equityRiskPremium)),
         Mul(RawKd(data, a, Div(data.interestExpenses, data.debt)), Sub(One, TaxRate)),
         Mul(data.price, data.sharesOutstanding),
         data.debt,
         Add(Mul(data.price, data.sharesOutstanding), data.debt))

ProjectionYears == 5

\* the for loop of calcDCF from year i on: << currentFCF, pvCF >> after year 5.
\* DCFYear is the body of the loop after currentFCF *= (1 + gRev).
RECURSIVE DCFLoop(_, _, _, _, _)
RECURSIVE DCFYear(_, _, _, _, _)
DCFLoop(i, currentFCF, pvCF, wacc, gRev) ==
  IF i > ProjectionYears THEN << currentFCF, pvCF >>
  ELSE DCFYear(i, Mul(currentFCF, Add(One, gRev)), pvCF, wacc, gRev)
DCFYear(i, currentFCF, pvCF, wacc, gRev) ==
  DCFLoop(i + 1, currentFCF, Add(pvCF, Div(currentFCF, Pow(Add(One, wacc), i))), wacc, gRev)

\* the statements after the loop: termFCF, termVal, pvTerm, ev, eqVal and the
\* value returned; loop is << currentFCF, pvCF >>
DCFPerShare(data, wacc, gPerp, loop) ==
  Max2(Zero,
       Div(Sub(Add(Add(loop[2],
                       Div(Div(Mul(loop[1], Add(One, gPerp)), Sub(wacc, gPerp)),
                           Pow(Add(One, wacc), ProjectionYears))),
                   data.cashAndEquivalents),
               data.debt),
           data.sharesOutstanding))

\* calcDCF without the growth of the base flow ahead of the loop
calcDCF_FromBaseFlow(data, wacc, gPerp, gRev) ==
  DCFPerShare(data, wacc, gPerp, DCFLoop(1, data.freeCashFlow, Zero, wacc, gRev))

calcDCF(data, wacc, gPerp, gRev) ==
  DCFPerShare(data, wacc, gPerp,
              DCFLoop(1, Mul(data.freeCashFlow, Add(One, gRev)), Zero, wacc, gRev))

\* calcGordon with the guard ke < g
calcGordon_StrictGuard(data, ke, g) ==
  IF Lt(ke, g) THEN Zero ELSE Div(Mul(data.currentEPS, Add(One, g)), Sub(ke, g))

calcGordon(data, ke, g) ==
  IF Le(ke, g) THEN Zero ELSE Div(Mul(data.currentEPS, Add(One, g)), Sub(ke, g))

GrahamMultiplier == Num(225, 10)

\* vpa of calcGraham
BookValuePerShare(data) ==
  IF Gt(data.sharesOutstanding, Zero) THEN Div(data.equity, data.sharesOutstanding) ELSE Zero

\* calcGraham without the guard on the book value per share
calcGraham_NoBookValueGuard(data) ==
  IF Le(data.currentEPS, Zero) THEN Zero
  ELSE Sqrt(Mul(Mul(GrahamMultiplier, data.currentEPS), BookValuePerShare(data)))

calcGraham(data) ==
  IF Le(data.currentEPS, Zero) \/ Le(BookValuePerShare(data), Zero) THEN Zero
  ELSE Sqrt(Mul(Mul(GrahamMultiplier, data.currentEPS), BookValuePerShare(data)))

NopatFactor == Num(66, 100)

\* eva with EBIT projected one period forward only
EconomicValueAdded_OnePeriod(data, wacc, gRev) ==
  Sub(Mul(Mul(data.ebit, Add(One, gRev)), NopatFactor), Mul(data.investedCapital, wacc))

\* eva = nopat - capCharge, with year1Ebit = ebit * (1 + gRev) * (1 + gRev)
EconomicValueAdded(data, wacc, gRev) ==
  Sub(Mul(Mul(Mul(data.ebit, Add(One, gRev)), Add(One, gRev)), NopatFactor),
      Mul(data.investedCapital, wacc))

calcEVA(data, wacc, gRev) ==
  Max2(Zero,
       Div(Add(Sub(Add(data.investedCapital, Div(EconomicValueAdded(data, wacc, gRev), wacc)),
                   data.debt),
               data.cashAndEquivalents),
           data.sharesOutstanding))

calcMultiples(data) ==
  Div(Add(Div(Mul(data.netIncome, data.sectorPE), data.sharesOutstanding),
          Div(Add(Sub(Mul(data.ebit, data.sectorEVEBITDA), data.debt),
                  data.cashAndEquivalents),
              data.sharesOutstanding)),
      Num(2, 1))

(***************************************************************************)
(* scripts/constants.ts                                                    *)
(***************************************************************************)
Weights(dcf, gordon, eva, multiples, graham) ==
  [DCF |-> dcf, GORDON |-> gordon, EVA |-> eva, MULTIPLES |-> multiples, GRAHAM |-> graham]

DEFAULT_WEIGHTS ==
  [GROWTH   |-> Weights(Num(50, 100), Zero, Num(20, 100), Num(20, 100), Num(10, 100)),
   MATURE   |-> Weights(Num(40, 100), Num(10, 100), Num(15, 100), Num(15, 100), Num(20, 100)),
   DISTRESS |-> Weights(Num(40, 100), Zero, Num(15, 100), Num(25, 100), Num(20, 100))]

DEFAULT_COST_OF_DEBT == Num(16, 100)

Preset(rf, erp, beta, gPerp, gRev) ==
  [riskFreeRate |-> rf, equityRiskPremium |-> erp, beta |-> beta,
   perpetualGrowth |-> gPerp, projectedRevenueGrowth |-> gRev]

SCENARIO_PRESETS ==
  [BASE |-> Preset(Num(15, 100), Num(5, 100), One, Num(5, 100), Num(5, 100)),
   BULL |-> Preset(Num(12, 100), Num(45, 1000), Num(11, 10), Num(6, 100), Num(8, 100)),
   BEAR |-> Preset(Num(16, 100), Num(6, 100), Num(9, 10), Num(3, 100), Num(2, 100))]

(***************************************************************************)
(* performValuation                                                        *)
(***************************************************************************)
\* the value undefined
Undefined == [undefined |-> TRUE]

\* const w = customWeights || DEFAULT_WEIGHTS.MATURE
EffectiveWeights(customWeights) ==
  IF customWeights = Undefined THEN DEFAULT_WEIGHTS.MATURE ELSE customWeights

\* the weights taken to sum to 1
TotalW_AssumedOne(w) == One

TotalW(w) == Add(Add(Add(Add(w.DCF, w.GORDON), w.EVA), w.MULTIPLES), w.GRAHAM)

Weighted(dcf, gordon, eva, multiples, graham, w) ==
  Div(Add(Add(Add(Add(Mul(dcf, w.DCF), Mul(gordon, w.GORDON)), Mul(eva, w.EVA)),
              Mul(multiples, w.MULTIPLES)), Mul(graham, w.GRAHAM)),
      TotalW(w))

Result(method, fairValue, weight, totalW, price) ==
  [method |-> method, fairValue |-> fairValue, weight |-> Div(weight, totalW),
   upside |-> Sub(Div(fairValue, price), One)]

\* the filter v >= 0
RECURSIVE PositiveValues_WithZero(_)
PositiveValues_WithZero(results) ==
  IF results = << >> THEN << >>
  ELSE (IF Ge(Head(results).fairValue, Zero) THEN << Head(results).fairValue >> ELSE << >>)
       \o PositiveValues_WithZero(Tail(results))

\* results.map(r => r.fairValue).filter(v => v > 0)
RECURSIVE PositiveValues(_)
PositiveValues(results) ==
  IF results = << >> THEN << >>
  ELSE (IF Gt(Head(results).fairValue, Zero) THEN << Head(results).fairValue >> ELSE << >>)
       \o PositiveValues(Tail(results))

\* Math.min(...values) and Math.max(...values)
RECURSIVE MathMin(_)
MathMin(values) == IF values = << >> THEN Inf(1) ELSE Min2(Head(values), MathMin(Tail(values)))
RECURSIVE MathMax(_)
MathMax(values) == IF values = << >> THEN Inf(-1) ELSE Max2(Head(values), MathMax(Tail(values)))

Steps == << -2, -1, 0, 1, 2 >>
StepSize == Num(5, 1000)

\* the pushed cell, from simW and simG
Cell(data, simW, simG, gRev) ==
  [wacc |-> simW, growth |-> simG, fairValue |-> calcDCF(data, simW, simG, gRev)]

\* the cell priced with the cell's growth as revenue growth too
SensitivityCell_GrowthAsRevenue(data, wacc, gPerp, gRev, wStep, gStep) ==
  Cell(data, Add(wacc, Mul(Num(wStep, 1), StepSize)), Add(gPerp, Mul(Num(gStep, 1), StepSize)),
       Add(gPerp, Mul(Num(gStep, 1), StepSize)))

SensitivityCell(data, wacc, gPerp, gRev, wStep, gStep) ==
  Cell(data, Add(wacc, Mul(Num(wStep, 1), StepSize)), Add(gPerp, Mul(Num(gStep, 1), StepSize)),
       gRev)

\* the matrix with the growth steps down the rows and the WACC steps across
SensitivityMatrix_Transposed(data, wacc, gPerp, gRev) ==
  [i \in 1..Len(Steps) |->
     [j \in 1..Len(Steps) |-> SensitivityCell(data, wacc, gPerp, gRev, Steps[j], Steps[i])]]

SensitivityMatrix(data, wacc, gPerp, gRev) ==
  [i \in 1..Len(Steps) |->
     [j \in 1..Len(Steps) |-> SensitivityCell(data, wacc, gPerp, gRev, Steps[i], Steps[j])]]

\* the results array
Results(data, dcf, gordon, eva, multiples, graham, w, totalW) ==
  << Result("DCF", dcf, w.DCF, totalW, data.price),
     Result("GORDON", gordon, w.GORDON, totalW, data.price),
     Result("EVA", eva, w.EVA, totalW, data.price),
     Result("MULTIPLES", multiples, w.MULTIPLES, totalW, data.price),
     Result("GRAHAM", graham, w.GRAHAM, totalW, data.price) >>

PriceRange(values) == [min |-> MathMin(values), max |-> MathMax(values)]

\* the returned object, from the consts wacc, gPerp, gRev, weighted and results
ComprehensiveValuation(data, wacc, gPerp, gRev, weighted, results) ==
  [ticker |-> data.ticker,
   currentPrice |-> data.price,
   weightedFairValue |-> weighted,
   calculatedWacc |-> wacc,
   totalUpside |-> Sub(Div(weighted, data.price), One),
   results |-> results,
   priceRange |-> PriceRange(PositiveValues(results)),
   sensitivityMatrix |-> SensitivityMatrix(data, wacc, gPerp, gRev)]

\* the blend of the five method values dcf, gordon, graham, eva and multiples
Blend(data, wacc, gPerp, gRev, w, dcf, gordon, graham, eva, multiples) ==
  ComprehensiveValuation(data, wacc, gPerp, gRev,
                         Weighted(dcf, gordon, eva, multiples, graham, w),
                         Results(data, dcf, gordon, eva, multiples, graham, w, TotalW(w)))

\* the function after const { wacc, ke } = calculateWacc(data, assumptions)
ValuationAt(data, wk, gPerp, gRev, w) ==
  Blend(data, wk.wacc, gPerp, gRev, w,
        calcDCF(data, wk.wacc, gPerp, gRev),
        calcGordon(data, wk.ke, gPerp),
        calcGraham(data),
        calcEVA(data, wk.wacc, gRev),
        calcMultiples(data))

performValuation(data, assumptions, customWeights) ==
  ValuationAt(data, calculateWacc(data, assumptions), assumptions.perpetualGrowth,
              assumptions.projectedRevenueGrowth, EffectiveWeights(customWeights))

(***************************************************************************)
(* scripts/valuation.ts: getFinancialData and its helpers.  A string is    *)
(* the sequence of its characters; null and undefined are the records Null *)
(* and Undefined; a row is a record of the columns the function reads.     *)
(* The display ratios of `fundamentals` (pl, pvp, margins, roe, ...) are   *)
(* left out of the snapshot; the host time zone is taken to be UTC.        *)
(***************************************************************************)
Null == [null |-> TRUE]

LowerCase ==
  << "a", "b", "c", "d", "e", "f", "g", "h", "i", "j", "k", "l", "m",
     "n", "o", "p", "q", "r", "s", "t", "u", "v", "w", "x", "y", "z" >>
UpperCase ==
  << "A", "B", "C", "D", "E", "F", "G", "H", "I", "J", "K", "L", "M",
     "N", "O", "P", "Q", "R", "S", "T", "U", "V", "W", "X", "Y", "Z" >>
Digits == << "0", "1", "2", "3", "4", "5", "6", "7", "8", "9" >>

\* the character c mapped from the alphabet `from` to the alphabet `to`
MapChar(c, from, to) ==
  IF \E i \in 1..Len(from) : from[i] = c
  THEN to[CHOOSE i \in 1..Len(from) : from[i] = c]
  ELSE c

\* String.prototype.toUpperCase, toLowerCase
toUpperCase(s) == [i \in 1..Len(s) |-> MapChar(s[i], LowerCase, UpperCase)]
toLowerCase(s) == [i \in 1..Len(s) |-> MapChar(s[i], UpperCase, LowerCase)]

\* String.prototype.startsWith, endsWith
startsWith(s, p) == Len(p) <= Len(s) /\ SubSeq(s, 1, Len(p)) = p
endsWith(s, p) == Len(p) <= Len(s) /\ SubSeq(s, Len(s) - Len(p) + 1, Len(s)) = p

\* String.prototype.trim
RECURSIVE trimStart(_)
trimStart(s) == IF s # << >> /\ Head(s) = " " THEN trimStart(Tail(s)) ELSE s
RECURSIVE trimEnd(_)
trimEnd(s) ==
  IF s # << >> /\ s[Len(s)] = " " THEN trimEnd(SubSeq(s, 1, Len(s) - 1)) ELSE s
trim(s) == trimEnd(trimStart(s))

\* s.replace(/\.SA$/, '')
DropExchangeSuffix(s) ==
  IF endsWith(s, << ".", "S", "A" >>) THEN SubSeq(s, 1, Len(s) - 3) ELSE s

\* s.replace(/[0-9F]+$/, ''): the longest run of digits and F at the end goes
RECURSIVE DropShareClass(_)
DropShareClass(s) ==
  IF s # << >> /\ (s[Len(s)] = "F" \/ \E i \in 1..Len(Digits) : Digits[i] = s[Len(s)])
  THEN DropShareClass(SubSeq(s, 1, Len(s) - 1))
  ELSE s

\* data.filter(d => d.symbol.toUpperCase() === ticker.toUpperCase())
RECURSIVE FilterExact(_, _)
FilterExact(rows, ticker) ==
  IF rows = << >> THEN << >>
  ELSE (IF toUpperCase(Head(rows).symbol) = toUpperCase(ticker)
        THEN << Head(rows) >> ELSE << >>) \o FilterExact(Tail(rows), ticker)

\* data.filter(d => d.symbol.toUpperCase().startsWith(root))
RECURSIVE FilterRoot(_, _)
FilterRoot(rows, root) ==
  IF rows = << >> THEN << >>
  ELSE (IF startsWith(toUpperCase(Head(rows).symbol), root)
        THEN << Head(rows) >> ELSE << >>) \o FilterRoot(Tail(rows), root)

filterByTicker(rows, ticker) ==
  IF FilterExact(rows, ticker) # << >> THEN FilterExact(rows, ticker)
  ELSE FilterRoot(rows, DropShareClass(toUpperCase(ticker)))

\* rawBrapi.find(b => b.symbol === t)
RECURSIVE FindSymbol(_, _)
FindSymbol(rows, t) ==
  IF rows = << >> THEN Undefined
  ELSE IF Head(rows).symbol = t THEN Head(rows) ELSE FindSymbol(Tail(rows), t)

\* rawBrapi.find(b => b.symbol.startsWith(root))
RECURSIVE FindRoot(_, _)
FindRoot(rows, root) ==
  IF rows = << >> THEN Undefined
  ELSE IF startsWith(Head(rows).symbol, root) THEN Head(rows) ELSE FindRoot(Tail(rows), root)

\* the quote row of the ticker t: tickerBrapi
FindQuote(rawBrapi, t) ==
  IF FindSymbol(rawBrapi, t) # Undefined THEN FindSymbol(rawBrapi, t)
  ELSE FindRoot(rawBrapi, DropShareClass(t))

\* the digits of a natural number below 10^width, width characters wide
RECURSIVE DigitsOf(_, _)
DigitsOf(n, width) ==
  IF width = 0 THEN << >> ELSE DigitsOf(n \div 10, width - 1) \o << Digits[(n % 10) + 1] >>

\* the natural number written by a sequence of digits
RECURSIVE ParseDigits(_)
ParseDigits(s) ==
  IF s = << >> THEN 0
  ELSE 10 * ParseDigits(SubSeq(s, 1, Len(s) - 1))
       + (CHOOSE i \in 1..Len(Digits) : Digits[i] = s[Len(s)]) - 1

\* days from 1970-01-01 to the day d of month m of year y of the civil
\* calendar; y counts from March, so that the leap day ends the year
DaysOfYears(y) == 365 * y + (y \div 4) - (y \div 100) + (y \div 400)
DaysFromCivil(y, m, d) ==
  DaysOfYears(IF m <= 2 THEN y - 1 ELSE y)
  + ((153 * (IF m > 2 THEN m - 3 ELSE m + 9) + 2) \div 5) + d - 1 - 719468

\* new Date(s).getTime() for s = "YYYY-MM-DD", in days (a day is 86,400,000 ms)
getTime(s) ==
  DaysFromCivil(ParseDigits(SubSeq(s, 1, 4)), ParseDigits(SubSeq(s, 6, 7)),
                ParseDigits(SubSeq(s, 9, 10)))

\* new Date(s).toLocaleDateString('pt-BR') for s = "YYYY-MM-DD": "DD/MM/YYYY"
LocaleDateOf(s) ==
  DigitsOf(ParseDigits(SubSeq(s, 9, 10)), 2) \o << "/" >>
  \o DigitsOf(ParseDigits(SubSeq(s, 6, 7)), 2) \o << "/" >>
  \o DigitsOf(ParseDigits(SubSeq(s, 1, 4)), 4)

\* new Date().toLocaleDateString('pt-BR') on the day `now` of November 2026
Today(now) == DigitsOf(now, 2) \o << "/", "1", "1", "/", "2", "0", "2", "6" >>

\* rows.sort((a, b) => new Date(b.end_date).getTime() - new Date(a.end_date).getTime()):
\* a stable sort, latest end_date first; rows that tie keep their order
RECURSIVE InsertByDate(_, _)
InsertByDate(sorted, r) ==
  IF sorted = << >> THEN << r >>
  ELSE IF getTime(Head(sorted).end_date) < getTime(r.end_date) THEN << r >> \o sorted
  ELSE << Head(sorted) >> \o InsertByDate(Tail(sorted), r)
RECURSIVE SortByDate(_)
SortByDate(rows) ==
  IF rows = << >> THEN rows
  ELSE InsertByDate(SortByDate(SubSeq(rows, 1, Len(rows) - 1)), rows[Len(rows)])

getLatest(rows) == IF rows = << >> THEN Null ELSE SortByDate(rows)[1]

classifyPeriod(period) ==
  IF period = Null \/ period = << >> THEN "quarterly"
  ELSE IF startsWith(toUpperCase(period), << "F", "Y" >>) \/ Len(period) = 4 THEN "yearly"
  ELSE "quarterly"

YearlyWords ==
  { << "y", "e", "a", "r", "l", "y" >>, << "a", "n", "n", "u", "a", "l" >>,
    << "a", "n", "u", "a", "l" >>, << "f", "y" >> }
QuarterlyWords ==
  { << "q", "u", "a", "r", "t", "e", "r", "l", "y" >>, << "q", "u", "a", "r", "t", "e", "r" >> }

\* x ?? '' and x || y on strings
OrEmpty(x) == IF x = Null THEN << >> ELSE x
OrString(x, y) == IF x = Null \/ x = << >> THEN y ELSE x

normalizeType(rawType, period) ==
  IF toLowerCase(OrEmpty(rawType)) \in YearlyWords THEN "yearly"
  ELSE IF toLowerCase(OrEmpty(rawType)) \in QuarterlyWords
          \/ startsWith(toLowerCase(OrEmpty(rawType)), << "q" >>) THEN "quarterly"
  ELSE classifyPeriod(OrString(period, OrString(rawType, << >>)))

\* the truth value of a number or of null: 0, NaN and null are falsy
Truthy(v) == v # Null /\ v.k # "nan" /\ ~(v.k = "fin" /\ v.s = 0)
\* v || w on numbers
Or(v, w) == IF Truthy(v) THEN v ELSE w

\* Math.abs
Abs(x) == IF x.k = "nan" THEN NaN ELSE IF x.k = "inf" THEN Inf(1) ELSE [x EXCEPT !.s = x.s * x.s]

normPercent(v) ==
  IF v = Null THEN Null
  ELSE IF ~IsFinite(v) THEN Null
  ELSE IF Gt(Abs(v), Num(2, 1)) THEN Div(v, Num(100, 1)) ELSE v

pickPos(v) ==
  IF v = Null THEN Null
  ELSE IF IsFinite(v) /\ Gt(v, Zero) THEN v ELSE Null

\* v ?? w
Coalesce(v, w) == IF v = Null THEN w ELSE v

getTypeFromTicker(t) ==
  IF endsWith(t, << "1", "1" >>) THEN "UNT"
  ELSE IF endsWith(t, << "4" >>) THEN "PN"
  ELSE IF endsWith(t, << "3" >>) THEN "ON"
  ELSE "ON"

\* const t = ticker.toUpperCase().trim().replace(/\.SA$/, '')
NormalizedTicker(ticker) == DropExchangeSuffix(trim(toUpperCase(ticker)))

\* rows.filter(d => classifyPeriod(d.period) === 'yearly').sort(...)
RECURSIVE FilterYearly(_)
FilterYearly(rows) ==
  IF rows = << >> THEN << >>
  ELSE (IF classifyPeriod(Head(rows).period) = "yearly" THEN << Head(rows) >> ELSE << >>)
       \o FilterYearly(Tail(rows))
Yearly(rows) == SortByDate(FilterYearly(rows))

\* baseIncome = yearlyIncome[0] || getLatest(tickerIncome)
BaseIncome(tickerIncome) ==
  IF Yearly(tickerIncome) # << >> THEN Yearly(tickerIncome)[1] ELSE getLatest(tickerIncome)

\* rows.find(r => r.end_date === baseDate)
RECURSIVE FindDate(_, _)
FindDate(rows, baseDate) ==
  IF rows = << >> THEN Undefined
  ELSE IF Head(rows).end_date = baseDate THEN Head(rows) ELSE FindDate(Tail(rows), baseDate)

\* baseBalance and baseCF: yearly.find(r => r.end_date === baseDate) || getLatest(rows)
BaseAt(rows, baseDate) ==
  IF FindDate(Yearly(rows), baseDate) # Undefined THEN FindDate(Yearly(rows), baseDate)
  ELSE getLatest(rows)

\* the filtered arrays once the base rows are chosen: getLatest sorts in place
IncomeAfterBase(tickerIncome) ==
  IF Yearly(tickerIncome) # << >> THEN tickerIncome ELSE SortByDate(tickerIncome)
RowsAfterBase(rows, baseDate) ==
  IF FindDate(Yearly(rows), baseDate) # Undefined THEN rows ELSE SortByDate(rows)

\* rows.map(r => ({ ...r, type: normalizeType(r.type, r.period) }))
WithType(rows) ==
  [i \in 1..Len(rows) |-> [rows[i] EXCEPT !.type = normalizeType(rows[i].type, rows[i].period)]]

\* price, mCap and shares
Price(q) == Or(q.regularMarketPrice, Num(10, 1))
MarketCap(q) == Or(q.marketCap, Zero)
SharesOfQuote(q) ==
  IF Gt(MarketCap(q), Zero) /\ Gt(Price(q), Zero) THEN Div(MarketCap(q), Price(q))
  ELSE Or(q.sharesOutstanding, Zero)
SharesOfIncome(q, baseIncome, shares) ==
  IF ~Truthy(shares) /\ Truthy(baseIncome.net_income) /\ Truthy(q.earningsPerShare)
  THEN Div(baseIncome.net_income, q.earningsPerShare) ELSE shares
DefaultShares == Num(1000000, 1)
Shares(q, baseIncome) == Or(SharesOfIncome(q, baseIncome, SharesOfQuote(q)), DefaultShares)

\* balance-sheet, income and cash-flow quantities
GrossDebt(baseBalance) ==
  Add(Or(baseBalance.long_term_debt, Zero), Or(baseBalance.short_long_term_debt, Zero))
CashOf(baseBalance) ==
  Add(Or(baseBalance.cash, Zero), Or(baseBalance.short_term_investments, Zero))
NetDebt(baseBalance) == Sub(GrossDebt(baseBalance), CashOf(baseBalance))
Equity(q, baseBalance, shares) ==
  Or(baseBalance.total_stockholder_equity,
     IF Truthy(q.bookValue) THEN Mul(q.bookValue, shares) ELSE Zero)
FreeCashFlow(baseCF) ==
  Add(Or(baseCF.total_cash_from_operating_activities, Zero), Or(baseCF.capital_expenditures, Zero))
NetIncome(baseIncome) == Or(baseIncome.net_income, Zero)
Lpa(q, baseIncome, shares) ==
  Or(q.lpa, Or(q.earningsPerShare, Div(NetIncome(baseIncome), shares)))
Vpa(q, baseBalance, shares) ==
  Or(q.vpa, Or(q.bookValue, Div(Equity(q, baseBalance, shares), shares)))

\* the fundamentals object
Fundamentals(t, q, baseIncome, baseBalance, shares, now) ==
  [symbol |-> t,
   type |-> getTypeFromTicker(t),
   price |-> Price(q),
   date |-> Today(now),
   marketCap |-> MarketCap(q),
   lastBalanceDate |-> LocaleDateOf(baseIncome.end_date),
   sharesOutstanding |-> shares,
   lpa |-> Lpa(q, baseIncome, shares),
   vpa |-> Vpa(q, baseBalance, shares)]

\* the returned FinancialData, from the quote q, the base rows and shares
FinancialData(t, q, baseIncome, baseBalance, baseCF, shares, raw, now) ==
  [ticker |-> t,
   price |-> Price(q),
   sharesOutstanding |-> shares,
   beta |-> Coalesce(pickPos(q.beta5y), SCENARIO_PRESETS.BASE.beta),
   growthRate |-> Coalesce(normPercent(q.revenueGrowth),
                           SCENARIO_PRESETS.BASE.projectedRevenueGrowth),
   revenue |-> Or(baseIncome.total_revenue, Zero),
   ebit |-> Or(baseIncome.ebit, Zero),
   netIncome |-> NetIncome(baseIncome),
   interestExpenses |-> Abs(Or(baseIncome.interest_expense, Zero)),
   taxRate |-> Num(34, 100),
   equity |-> Equity(q, baseBalance, shares),
   debt |-> GrossDebt(baseBalance),
   cashAndEquivalents |-> CashOf(baseBalance),
   investedCapital |-> Add(Equity(q, baseBalance, shares), NetDebt(baseBalance)),
   freeCashFlow |-> FreeCashFlow(baseCF),
   depreciation |-> Or(baseCF.depreciation, Zero),
   sectorPE |-> Num(8, 1),
   sectorEVEBITDA |-> Num(6, 1),
   currentEPS |-> Lpa(q, baseIncome, shares),
   rawIncome |-> WithType(raw.income),
   rawBalance |-> WithType(raw.balance),
   rawCashFlow |-> WithType(raw.cashFlow),
   rawDividends |-> raw.dividends,
   fundamentals |-> Fundamentals(t, q, baseIncome, baseBalance, shares, now)]

\* the function from the base rows on
BuildSnapshot(t, q, baseIncome, baseBalance, baseCF, raw, now) ==
  FinancialData(t, q, baseIncome, baseBalance, baseCF, Shares(q, baseIncome), raw, now)

\* the function from baseIncome on; baseDate is baseIncome.end_date
SelectBaseRows(t, q, tickerIncome, tickerBalance, tickerCashFlow, rawDividends, baseIncome, now) ==
  BuildSnapshot(t, q, baseIncome,
                BaseAt(tickerBalance, baseIncome.end_date),
                BaseAt(tickerCashFlow, baseIncome.end_date),
                [income |-> IncomeAfterBase(tickerIncome),
                 balance |-> RowsAfterBase(tickerBalance, baseIncome.end_date),
                 cashFlow |-> RowsAfterBase(tickerCashFlow, baseIncome.end_date),
                 dividends |-> rawDividends],
                now)

\* the outcome of a call: a value returned or an error thrown
Returned(v) == [status |-> "returned", value |-> v]
Thrown(e) == [status |-> "thrown", value |-> e]

\* the list `missing`
Missing(tickerBrapi, tickerIncome, tickerBalance, tickerCashFlow) ==
  (IF tickerBrapi = Undefined THEN << "cotação" >> ELSE << >>)
  \o (IF tickerIncome = << >> THEN << "DRE" >> ELSE << >>)
  \o (IF tickerBalance = << >> THEN << "balanço" >> ELSE << >>)
  \o (IF tickerCashFlow = << >> THEN << "fluxo de caixa" >> ELSE << >>)

\* the function from the filtered rows on
CheckComplete(t, tickerBrapi, tickerIncome, tickerBalance, tickerCashFlow, rawDividends, now) ==
  IF tickerBrapi = Undefined \/ tickerIncome = << >> \/ tickerBalance = << >>
     \/ tickerCashFlow = << >>
  THEN Thrown([message |-> "Dados incompletos", t |-> t,
               missing |-> Missing(tickerBrapi, tickerIncome, tickerBalance, tickerCashFlow)])
  ELSE Returned(SelectBaseRows(t, tickerBrapi, tickerIncome, tickerBalance, tickerCashFlow,
                               rawDividends, BaseIncome(tickerIncome), now))

\* the function after `await fetchFinancials(t)` has given supa
AfterFetch(t, supa, now) ==
  IF supa = Null THEN Thrown([message |-> "Sem dados", t |-> t])
  ELSE CheckComplete(t, FindQuote(supa.brapi, t), filterByTicker(supa.income, t),
                     filterByTicker(supa.balance, t), filterByTicker(supa.cashFlow, t),
                     supa.dividends, now)

\* getFinancialData(ticker) when the fetch gives supa and the day is `now`
getFinancialData(ticker, supa, now) == AfterFetch(NormalizedTicker(ticker), supa, now)

(***************************************************************************)
(* Inputs of the valuation engine.                                         *)
(***************************************************************************)
\* the fields of FinancialData the engine reads; the sector multiples and the
\* tax rate are the literals getFinancialData stores in every snapshot, and
\* vpa is the book value per share of the snapshot's fundamentals
Snapshot(ticker, price, shares, debt, interest, fcf, cash, eps, equity, ebit, ic, ni, vpa) ==
  [ticker |-> ticker, price |-> Num(price, 1), sharesOutstanding |-> Num(shares, 1),
   debt |-> Num(debt, 1), interestExpenses |-> Num(interest, 1),
   freeCashFlow |-> Num(fcf, 1), cashAndEquivalents |-> Num(cash, 1),
   currentEPS |-> Num(eps, 1), equity |-> Num(equity, 1), ebit |-> Num(ebit, 1),
   investedCapital |-> Num(ic, 1), netIncome |-> Num(ni, 1),
   sectorPE |-> Num(8, 1), sectorEVEBITDA |-> Num(6, 1), taxRate |-> Num(34, 100),
   fundamentals |-> [lpa |-> Num(eps, 1), vpa |-> Num(vpa, 1)]]

Snapshots ==
  { \* profitable, no debt
    Snapshot("HLTH3", 10, 100, 0, 0, 100, 0, 2, 500, 150, 500, 200, 5),
    \* free cash flow 1,000,000 on 100,000 shares, no cash and no debt
    Snapshot("EXMP3", 10, 100000, 0, 0, 1000000, 0, 2, 500000, 150000, 500000, 200000, 5),
    \* loss-making
    Snapshot("LOSS3", 10, 100, 0, 0, -50, 20, -1, 1000, -50, 980, -100, 10),
    \* indebted, interest at 10% of the debt, book value per share of the
    \* quote (10) unlike equity / shares (5)
    Snapshot("DEBT3", 10, 100, 400, 40, 100, 50, 2, 500, 150, 850, 200, 10),
    \* negative equity, interest at 100% of the debt
    Snapshot("NEGQ3", 10, 100, 400, 400, 100, 50, 2, -500, 150, -150, 200, -5),
    \* no free cash flow
    Snapshot("ZFCF3", 10, 100, 0, 0, 0, 0, 2, 500, 150, 500, 200, 5),
    \* a negative share count (netIncome / EPS of a loss) and negative equity
    Snapshot("NEGS3", 10, -50, 0, 0, 100, 0, 2, -500, 150, -500, -100, 10),
    \* a negative share count and a debt of the same size as price * shares:
    \* E + D = 0
    Snapshot("NEGV3", 10, -50, 500, 50, 100, 0, 2, 300, 150, 800, -100, -6),
    \* interest at exactly 1% of the debt
    Snapshot("LOWK3", 10, 100, 400, 4, 100, 50, 2, 500, 150, 850, 200, 5),
    \* interest at exactly 60% of the debt
    Snapshot("HIGK3", 10, 100, 400, 240, 100, 50, 2, 500, 150, 850, 200, 5),
    \* debt without interest
    Snapshot("ZINT3", 10, 100, 400, 0, 100, 50, 2, 500, 150, 850, 200, 5) }

Assumptions(preset, costOfDebt, taxRate) ==
  [riskFreeRate |-> preset.riskFreeRate, equityRiskPremium |-> preset.equityRiskPremium,
   beta |-> preset.beta, perpetualGrowth |-> preset.perpetualGrowth,
   projectedRevenueGrowth |-> preset.projectedRevenueGrowth,
   costOfDebt |-> costOfDebt, taxRate |-> taxRate]

AssumptionSets ==
  { Assumptions(SCENARIO_PRESETS.BASE, DEFAULT_COST_OF_DEBT, Num(34, 100)),
    Assumptions(SCENARIO_PRESETS.BULL, DEFAULT_COST_OF_DEBT, Num(34, 100)),
    \* Ke = WACC = 12% for a firm without debt
    Assumptions(Preset(Num(7, 100), Num(5, 100), One, Num(5, 100), Num(5, 100)),
                DEFAULT_COST_OF_DEBT, Num(34, 100)),
    \* Ke = 5% below g = 8%
    Assumptions(Preset(Num(3, 100), Num(2, 100), One, Num(8, 100), Num(5, 100)),
                DEFAULT_COST_OF_DEBT, Num(34, 100)),
    \* Ke = g = 8%
    Assumptions(Preset(Num(3, 100), Num(5, 100), One, Num(8, 100), Num(5, 100)),
                DEFAULT_COST_OF_DEBT, Num(34, 100)) }

\* the largest factor by which the weights are scaled up and down
MaxScale == 3

ScaleFactors == { Num(j, 1) : j \in 2..MaxScale } \cup { Num(1, j) : j \in 2..MaxScale }

\* all five weights multiplied by k
Scaled(w, k) ==
  Weights(Mul(w.DCF, k), Mul(w.GORDON, k), Mul(w.EVA, k), Mul(w.MULTIPLES, k), Mul(w.GRAHAM, k))

WeightProfiles ==
  { Undefined, DEFAULT_WEIGHTS.GROWTH, DEFAULT_WEIGHTS.DISTRESS,
    Weights(Num(3, 1), Num(1, 1), Num(2, 1), Num(2, 1), Num(2, 1)),
    \* the DCF left out of the consensus
    Weights(Zero, Num(1, 1), Num(2, 1), Num(1, 1), Num(1, 1)) }

\* a variable that holds nothing yet
None == [none |-> TRUE]

VARIABLES pc, data, assumptions, customWeights, valuation,
          gpc, ticker, supa, now, outcome,
          mpc, tickers, batchStart, results, success, failed, generated, pages, calls, site,
          pageResult, slept

valVars == << pc, data, assumptions, customWeights, valuation >>
dataVars == << gpc, ticker, supa, now, outcome >>
genVars == << mpc, tickers, batchStart, results, success, failed, generated, pages, calls, site,
          pageResult, slept >>
vars == << valVars, dataVars, genVars >>

(***************************************************************************)
(* The engine run on one snapshot: the caller picks the inputs, then       *)
(* performValuation computes the ComprehensiveValuation.                   *)
(***************************************************************************)
InitVal ==
  /\ pc = "input"
  /\ data = None
  /\ assumptions = None
  /\ customWeights = None
  /\ valuation = None

ChooseInputs ==
  /\ pc = "input"
  /\ data' \in Snapshots
  /\ assumptions' \in AssumptionSets
  /\ customWeights' \in WeightProfiles
  /\ pc' = "ready"
  /\ UNCHANGED << valuation, dataVars, genVars >>

PerformValuation ==
  /\ pc = "ready"
  /\ valuation' = performValuation(data, assumptions, customWeights)
  /\ pc' = "valued"
  /\ UNCHANGED << data, assumptions, customWeights, dataVars, genVars >>

NextVal == ChooseInputs \/ PerformValuation

(***************************************************************************)
(* Inputs of getFinancialData: the ticker asked for and what               *)
(* fetchFinancials gives, null or the rows of the five tables.             *)
(***************************************************************************)
VALE3 == << "V", "A", "L", "E", "3" >>
VALE5 == << "V", "A", "L", "E", "5" >>
PETR4 == << "P", "E", "T", "R", "4" >>
\* the symbol in lowercase and with the exchange suffix
Vale3SA == << "v", "a", "l", "e", "3", ".", "s", "a" >>

Dec2022 == << "2", "0", "2", "2", "-", "1", "2", "-", "3", "1" >>
Dec2023 == << "2", "0", "2", "3", "-", "1", "2", "-", "3", "1" >>
Mar2024 == << "2", "0", "2", "4", "-", "0", "3", "-", "3", "1" >>

Year2022 == << "2", "0", "2", "2" >>
Year2023 == << "2", "0", "2", "3" >>
FY2023 == << "F", "Y", "2", "0", "2", "3" >>
Quarter1Q2024 == << "1", "Q", "2", "0", "2", "4" >>
Quarter4Q23 == << "4", "Q", "2", "3" >>
TypeYearly == << "y", "e", "a", "r", "l", "y" >>
TypeQuarterly == << "q", "u", "a", "r", "t", "e", "r", "l", "y" >>

\* a column value that is the integer v; a missing one is Null
N(v) == Num(v, 1)

IncomeRow(symbol, end_date, period, type, net_income, ebit, interest_expense, total_revenue) ==
  [symbol |-> symbol, end_date |-> end_date, period |-> period, type |-> type,
   net_income |-> net_income, ebit |-> ebit,
   interest_expense |-> interest_expense, total_revenue |-> total_revenue]

BalanceRow(symbol, end_date, period, type, long_term_debt, short_long_term_debt, cash, short_term_investments, total_stockholder_equity) ==
  [symbol |-> symbol, end_date |-> end_date, period |-> period, type |-> type,
   long_term_debt |-> long_term_debt, short_long_term_debt |-> short_long_term_debt,
   cash |-> cash, short_term_investments |-> short_term_investments,
   total_stockholder_equity |-> total_stockholder_equity]

CashFlowRow(symbol, end_date, period, type, total_cash_from_operating_activities, capital_expenditures, depreciation) ==
  [symbol |-> symbol, end_date |-> end_date, period |-> period, type |-> type,
   total_cash_from_operating_activities |-> total_cash_from_operating_activities,
   capital_expenditures |-> capital_expenditures, depreciation |-> depreciation]

QuoteRow(symbol, regularMarketPrice, marketCap, sharesOutstanding, earningsPerShare, bookValue) ==
  [symbol |-> symbol, regularMarketPrice |-> regularMarketPrice,
   marketCap |-> marketCap, sharesOutstanding |-> sharesOutstanding,
   earningsPerShare |-> earningsPerShare, bookValue |-> bookValue,
   lpa |-> Null, vpa |-> Null, beta5y |-> Null, revenueGrowth |-> Null]

IncomeRows ==
  { \* the year 2023, the same year restated, and the first quarter of 2024
    IncomeRow(VALE3, Dec2023, Year2023, Null, N(200), N(150), N(-40), N(1000)),
    IncomeRow(VALE3, Dec2023, FY2023, << "y", "e", "a", "r", "l", "y" >>, N(180), N(140), N(-40), N(1000)),
    IncomeRow(VALE3, Mar2024, Quarter1Q2024, Null, N(60), N(40), N(-10), N(300)),
    \* the year 2023 keyed in lowercase with the exchange suffix
    IncomeRow(Vale3SA, Dec2023, Year2023, Null, N(200), N(150), N(-40), N(1000)),
    \* the year 2023 with type 'yearly' and the end date as period label
    IncomeRow(VALE3, Dec2023, Dec2023, TypeYearly, N(190), N(145), N(-40), N(1000)),
    \* the fourth quarter of 2023 with the period label '4Q23'
    IncomeRow(VALE3, Dec2023, Quarter4Q23, TypeQuarterly, N(50), N(35), N(-10), N(250)) }

\* the largest number of income rows fetched
MaxRows == 2

\* the lists of at most MaxRows different income rows
IncomeLists ==
  UNION { { s \in [1..n -> IncomeRows] : \A i, j \in 1..n : i # j => s[i] # s[j] } :
          n \in 0..MaxRows }

BalanceLists ==
  { << >>,
    << BalanceRow(VALE3, Dec2023, Year2023, Null, N(300), N(100), N(50), Null, N(500)) >>,
    << BalanceRow(Vale3SA, Dec2023, Year2023, Null, N(300), N(100), N(50), Null, N(500)) >>,
    << BalanceRow(VALE3, Dec2022, Year2022, Null, N(200), N(100), N(40), N(10), N(450)),
       BalanceRow(VALE3, Dec2023, Year2023, Null, N(300), N(100), N(50), Null, N(500)) >>,
    \* the year 2022 and the first quarter of 2024, no balance sheet for 2023
    << BalanceRow(VALE3, Dec2022, Year2022, Null, N(200), N(100), N(40), N(10), N(450)),
       BalanceRow(VALE3, Mar2024, Quarter1Q2024, Null, N(350), N(120), N(60), Null, N(520)) >> }

CashFlowLists ==
  { << >>,
    << CashFlowRow(VALE3, Dec2023, Year2023, Null, N(180), N(-80), N(30)) >>,
    << CashFlowRow(Vale3SA, Dec2023, Year2023, Null, N(180), N(-80), N(30)) >>,
    \* a row with no figure in it
    << CashFlowRow(VALE3, Dec2023, Year2023, Null, Null, Null, Null) >> }

QuoteLists ==
  { << >>,
    << QuoteRow(VALE3, N(10), N(1000), Null, N(2), N(5)) >>,
    << QuoteRow(Vale3SA, N(10), N(1000), Null, N(2), N(5)) >>,
    << QuoteRow(VALE5, N(12), Null, N(90), N(2), N(5)), QuoteRow(VALE3, N(10), N(1000), Null, N(2), N(5)) >>,
    \* no market value, no share count and no earnings per share
    << QuoteRow(VALE3, N(10), N(0), N(0), Null, N(5)) >>,
    \* no market value and a negative share count
    << QuoteRow(VALE3, N(10), Null, N(-100), N(2), N(5)) >>,
    \* no price
    << QuoteRow(VALE3, Null, N(1000), Null, N(2), N(5)) >> }

DividendLists ==
  { << >>, << [symbol |-> VALE3, payment_date |-> Dec2023, rate |-> Num(1, 1)] >> }

\* what fetchFinancials resolves to
FetchResults ==
  { Null } \cup
  { [income |-> i, balance |-> b, cashFlow |-> c, brapi |-> q, dividends |-> d] :
      i \in IncomeLists, b \in BalanceLists, c \in CashFlowLists, q \in QuoteLists,
      d \in DividendLists }

Tickers == { VALE3, Vale3SA, PETR4 }

\* the last day of the month the clock reaches
MaxDay == 2

(***************************************************************************)
(* One call of getFinancialData: the call awaits fetchFinancials, the day  *)
(* may change meanwhile, and the call resumes with what the fetch gave.    *)
(***************************************************************************)
InitData ==
  /\ gpc = "idle"
  /\ ticker = None
  /\ supa = None
  /\ now = 1
  /\ outcome = None

Call ==
  /\ gpc = "idle"
  /\ ticker' \in Tickers
  /\ gpc' = "awaiting"
  /\ UNCHANGED << supa, now, outcome, valVars, genVars >>

\* midnight passes while the call awaits
Tick ==
  /\ gpc = "awaiting"
  /\ now < MaxDay
  /\ now' = now + 1
  /\ UNCHANGED << gpc, ticker, supa, outcome, valVars, genVars >>

Resume ==
  /\ gpc = "awaiting"
  /\ supa' \in FetchResults
  /\ outcome' = getFinancialData(ticker, supa', now)
  /\ gpc' = "done"
  /\ UNCHANGED << ticker, now, valVars, genVars >>

NextData == Call \/ Tick \/ Resume

(***************************************************************************)
(* scripts/generate-pages.ts: generatePage and main.  A page is kept as    *)
(* the ticker, the price and the valuation figures it shows; the result    *)
(* of a generatePage call is "pending" while it awaits its data, then      *)
(* "true" or "false" ("rejected" if the promise rejects).                  *)
(***************************************************************************)
BATCH_SIZE == 5
DELAY_MS == 300

\* the assumptions generatePage values every ticker with
BaseAssumptions == Assumptions(SCENARIO_PRESETS.BASE, DEFAULT_COST_OF_DEBT, Num(34, 100))

\* the figures of the page written for a ticker
PageOf(t, d, val) ==
  [ticker |-> t, price |-> d.price,
   weightedFairValue |-> val.weightedFairValue, totalUpside |-> val.totalUpside]

\* return false, with no page written
Skipped == [ok |-> "false", page |-> None]

\* the catch of generatePage with the error thrown again
OnError_Rethrown == [ok |-> "rejected", page |-> None]

\* catch (err) { console.warn(...); return false }
OnError == Skipped

\* generatePage from the valuation on
AfterValuation(t, d, val) ==
  IF ~Truthy(val.weightedFairValue) \/ ~IsFinite(val.weightedFairValue) THEN Skipped
  ELSE [ok |-> "true", page |-> PageOf(t, d, val)]

\* generatePage once getFinancialData has returned or thrown
AfterData(t, fetched) ==
  IF fetched.status = "thrown" THEN OnError
  ELSE AfterValuation(t, fetched.value,
                      performValuation(fetched.value, BaseAssumptions, Undefined))

\* generatePage(t) when the fetch gives rows and the day is today
generatePage(t, rows, today) == AfterData(t, getFinancialData(t, rows, today))

Min(a, b) == IF a <= b THEN a ELSE b

\* s.slice(a, b) for 0 <= a <= b
slice(s, a, b) == SubSeq(s, a + 1, Min(b, Len(s)))

\* const batch = tickers.slice(i, i + BATCH_SIZE)
Batch(ts, from) == slice(ts, from, from + BATCH_SIZE)

\* i += BATCH_SIZE, one ticker too far
NextStart_SkipOne(from) == from + BATCH_SIZE + 1

\* i += BATCH_SIZE
NextStart(from) == from + BATCH_SIZE

\* batch.map(generatePage): one pending call for each ticker of the batch
Pending(batch) == [j \in 1..Len(batch) |-> "pending"]

\* the number of generatePage calls made for each place of the list, once
\* the batch at offset from has been started
Started(ts, from, made) ==
  [k \in 1..Len(ts) |-> IF k > from /\ k <= from + BATCH_SIZE THEN made[k] + 1 ELSE made[k]]

\* the number of results equal to ok
RECURSIVE Count(_, _)
Count(rs, ok) ==
  IF rs = << >> THEN 0
  ELSE (IF Head(rs) = ok THEN 1 ELSE 0) + Count(Tail(rs), ok)

\* the tickers of the batch whose result is true, in the order of the batch
RECURSIVE Succeeded(_, _)
Succeeded(batch, rs) ==
  IF batch = << >> THEN << >>
  ELSE (IF Head(rs) = "true" THEN << Head(batch) >> ELSE << >>)
       \o Succeeded(Tail(batch), Tail(rs))

\* Promise.all has settled: it rejects with the first rejection and resolves
\* when every call has returned
Rejected(rs) == \E j \in 1..Len(rs) : rs[j] = "rejected"
Settled(rs) ==
  IF Rejected(rs) THEN TRUE ELSE \A j \in 1..Len(rs) : rs[j] # "pending"

(***************************************************************************)
(* Inputs of the generator: the ticker list and, for each ticker, what     *)
(* fetchFinancials gives for it.                                           *)
(***************************************************************************)
LOSS3 == << "L", "O", "S", "S", "3" >>
ZERO3 == << "Z", "E", "R", "O", "3" >>
INFI3 == << "I", "N", "F", "I", "3" >>
ITUB4 == << "I", "T", "U", "B", "4" >>
BBAS3 == << "B", "B", "A", "S", "3" >>

\* one yearly row in each statement and one quote, all keyed by symbol
Statements(symbol, net_income, ebit, interest_expense, long_term_debt, cash, total_stockholder_equity, total_cash_from_operating_activities, capital_expenditures, regularMarketPrice, marketCap, earningsPerShare) ==
  [income |-> << IncomeRow(symbol, Dec2023, Year2023, Null, net_income, ebit,
                           interest_expense, N(1000)) >>,
   balance |-> << BalanceRow(symbol, Dec2023, Year2023, Null, long_term_debt, Null, cash,
                             Null, total_stockholder_equity) >>,
   cashFlow |-> << CashFlowRow(symbol, Dec2023, Year2023, Null,
                               total_cash_from_operating_activities, capital_expenditures,
                               Null) >>,
   brapi |-> << QuoteRow(symbol, regularMarketPrice, marketCap, Null, earningsPerShare,
                         Null) >>,
   dividends |-> << >>]

NoRows == [income |-> << >>, balance |-> << >>, cashFlow |-> << >>, brapi |-> << >>,
           dividends |-> << >>]

\* what fetchFinancials(t) resolves to for the ticker t
FetchedFor(t) ==
  CASE t = VALE3 -> \* profitable and indebted
         Statements(VALE3, N(200), N(150), N(-40), N(400), N(50), N(500), N(180), N(-80),
                    N(10), N(1000), N(2))
    [] t = BBAS3 -> \* profitable, no debt
         Statements(BBAS3, N(200), N(150), Null, Null, Null, N(500), N(100), Null,
                    N(10), N(1000), N(2))
    [] t = LOSS3 -> \* loss-making: the consensus is negative
         Statements(LOSS3, N(-100), N(-50), Null, Null, N(20), N(1000), N(-30), N(-20),
                    N(10), N(1000), Null)
    [] t = ZERO3 -> \* no earnings and no cash flow: the consensus is 0
         Statements(ZERO3, N(0), N(0), Null, Null, Null, N(500), N(0), N(0),
                    N(10), N(1000), Null)
    [] t = INFI3 -> \* WACC equal to the perpetual growth: the consensus is infinite
         Statements(INFI3, N(0), N(150), N(-15), N(300), Null, N(500), N(100), Null,
                    N(17), N(34), Null)
    [] t = ITUB4 -> Null
    [] OTHER -> NoRows

\* the tickers in the order they are listed
Listing == << VALE3, PETR4, LOSS3, ZERO3, INFI3, ITUB4, BBAS3 >>

\* the longest ticker list
MaxTickers == 11

\* the first n places of the listing, which starts over after its last ticker
TickerList(n) == [k \in 1..n |-> Listing[((k - 1) % Len(Listing)) + 1]]
TickerLists == { TickerList(n) : n \in 0..MaxTickers }

\* the tickers main can be given
Listed == { Listing[k] : k \in 1..Len(Listing) }

(***************************************************************************)
(* main: the batches run one after the other, the generatePage calls of a  *)
(* batch run together and resume in any order.  pageResult holds, for      *)
(* each ticker, what its generatePage call returns and writes in this run: *)
(* it is fixed by what the data source holds when the run starts.          *)
(***************************************************************************)
InitGen ==
  /\ mpc = "start"
  /\ tickers = << >>
  /\ batchStart = 0
  /\ results = << >>
  /\ success = 0
  /\ failed = 0
  /\ generated = << >>
  /\ pages = {}
  /\ calls = << >>
  /\ site = None
  /\ pageResult = [t \in Listed |-> generatePage(t, FetchedFor(NormalizedTicker(t)), now)]
  /\ slept = 0

\* main up to its first await Promise.all: the ticker list ts has been
\* obtained and the first batch is started
MainWith(ts) ==
  /\ tickers' = ts
  /\ results' = Pending(Batch(ts, 0))
  /\ calls' = Started(ts, 0, [k \in 1..Len(ts) |-> 0])
  /\ mpc' = IF ts = << >> THEN "done" ELSE "awaiting"
  /\ UNCHANGED << batchStart, success, failed, generated, pages, site, valVars, dataVars,
                  pageResult, slept >>

Main ==
  /\ mpc = "start"
  /\ \E ts \in TickerLists : MainWith(ts)

\* the call for place j of the batch ends with result r
Return(j, r) ==
  /\ results' = [results EXCEPT ![j] = r.ok]
  /\ pages' = IF r.ok = "true" THEN pages \cup { r.page } ELSE pages
  /\ UNCHANGED << mpc, tickers, batchStart, success, failed, generated, calls, site, valVars,
                  dataVars, pageResult, slept >>

\* a generatePage call of the batch resumes with its data and runs to its end
GeneratePage ==
  /\ mpc = "awaiting"
  /\ \E j \in 1..Len(results) :
       /\ results[j] = "pending"
       /\ Return(j, pageResult[Batch(tickers, batchStart)[j]])

\* main after the loop, with the tickers gen generated: the sitemap and
\* robots.txt are written when there is a page (index is the list written
\* to tickers.json, empty until it is written)
AfterLoop(gen) ==
  IF gen = << >> THEN mpc' = "done" /\ site' = site
  ELSE mpc' = "indexing" /\ site' = [sitemap |-> gen, index |-> << >>]

\* the sleep of line 83 after every batch, the last one too
SleepsAfter_EveryBatch(from, ts) == TRUE

\* if (i + BATCH_SIZE < tickers.length) await sleep(DELAY_MS)
SleepsAfter(from, ts) == from + BATCH_SIZE < Len(ts)

\* main resumes from await Promise.all: the results are counted, then main
\* sleeps before the next batch or leaves the loop; a rejection ends main.
\* slept is the time main has asked sleep for so far, in ms
Tally ==
  /\ mpc = "awaiting"
  /\ Settled(results)
  /\ IF Rejected(results)
     THEN /\ mpc' = "crashed"
          /\ UNCHANGED << batchStart, success, failed, generated, site, slept >>
     ELSE /\ success' = success + Count(results, "true")
          /\ failed' = failed + Count(results, "false")
          /\ generated' = generated \o Succeeded(Batch(tickers, batchStart), results)
          /\ IF SleepsAfter(batchStart, tickers)
             THEN /\ mpc' = "sleeping"
                  /\ slept' = slept + DELAY_MS
                  /\ UNCHANGED << batchStart, site >>
             ELSE /\ batchStart' = NextStart(batchStart)
                  /\ AfterLoop(generated')
                  /\ slept' = slept
  /\ UNCHANGED << tickers, results, pages, calls, valVars, dataVars,
                  pageResult >>

\* main resumes from await sleep(DELAY_MS) and starts the next batch
Wake ==
  /\ mpc = "sleeping"
  /\ batchStart' = NextStart(batchStart)
  /\ results' = Pending(Batch(tickers, batchStart'))
  /\ calls' = Started(tickers, batchStart', calls)
  /\ IF batchStart' < Len(tickers) THEN mpc' = "awaiting" /\ site' = site
     ELSE AfterLoop(generated)
  /\ UNCHANGED << tickers, success, failed, generated, pages, valVars, dataVars,
                  pageResult, slept >>

\* main resumes from await getTickersWithNames() and writes tickers.json
Index ==
  /\ mpc = "indexing"
  /\ site' = [site EXCEPT !.index = generated]
  /\ mpc' = "done"
  /\ UNCHANGED << tickers, batchStart, results, success, failed, generated, pages, calls, valVars,
                  dataVars, pageResult, slept >>

NextGen == Main \/ GeneratePage \/ Tally \/ Wake \/ Index

Init == InitVal /\ InitData /\ InitGen

SpecVal == Init /\ [][NextVal]_vars

SpecData == Init /\ [][NextData]_vars

\* the event loop runs every continuation that is ready, and every fetch and
\* every timer main awaits settles
SpecGen == Init /\ [][NextGen]_vars /\ WF_vars(NextGen)

Next == NextVal
Spec == Init /\ [][Next]_vars

(***************************************************************************)
(* Properties of the valuation engine, checked under SpecVal.              *)
(***************************************************************************)
Valued == pc = "valued"
Methods == 1..5
FairValue(i) == valuation.results[i].fairValue
DCFValue == FairValue(1)
GordonValue == FairValue(2)
GrahamValue == FairValue(5)
Ke == Add(assumptions.riskFreeRate, Mul(assumptions.beta, assumptions.equityRiskPremium))
PositiveMethods == { i \in Methods : Gt(FairValue(i), Zero) }

\* C1: for a snapshot with price > 0 and sharesOutstanding > 0, each of the
\* five fair values of performValuation is finite and >= 0.
C1_FairValuesFiniteNonNegative ==
  (Valued /\ Gt(data.price, Zero) /\ Gt(data.sharesOutstanding, Zero))
    => \A i \in Methods : IsFinite(FairValue(i)) /\ Ge(FairValue(i), Zero)

\* C2: scaling all five weights by the same positive constant k leaves the
\* weighted fair value and every normalized per-method weight unchanged.
C2_WeightScaleInvariance ==
  Valued =>
    \A k \in ScaleFactors :
      LET w == Scaled(EffectiveWeights(customWeights), k)
          name == << "DCF", "GORDON", "EVA", "MULTIPLES", "GRAHAM" >>
      IN  /\ Same(Weighted(FairValue(1), FairValue(2), FairValue(3), FairValue(4),
                           FairValue(5), w),
                  valuation.weightedFairValue)
          /\ \A i \in Methods :
               Same(Div(w[name[i]], TotalW(w)), valuation.results[i].weight)

\* a valuation with weights that do not sum to 1 and a positive weighted value
C2_Witness ==
  /\ Valued
  /\ customWeights # Undefined
  /\ ~Eq(TotalW(customWeights), One)
  /\ IsFinite(valuation.weightedFairValue)
  /\ Gt(valuation.weightedFairValue, Zero)

CenterCell == valuation.sensitivityMatrix[3][3]

\* C3: the sensitivity cell at row 2, column 2 (zero-indexed) has the
\* calculated WACC, the assumed perpetual growth and the fair value of the
\* DCF entry of results.
C3_CenterCellIsBaseCase ==
  Valued =>
    /\ Same(CenterCell.wacc, valuation.calculatedWacc)
    /\ Same(CenterCell.growth, assumptions.perpetualGrowth)
    /\ Same(CenterCell.fairValue, DCFValue)

\* a grid whose centre is a positive base case and whose corner differs from it
C3_Witness ==
  /\ Valued
  /\ IsFinite(DCFValue)
  /\ Gt(DCFValue, Zero)
  /\ ~Same(valuation.sensitivityMatrix[1][1].fairValue, CenterCell.fairValue)
  /\ ~Same(valuation.sensitivityMatrix[1][1].wacc, CenterCell.wacc)

\* C4: priceRange.min and priceRange.max are the minimum and the maximum over
\* exactly the strictly positive method fair values; a method that returned 0
\* is never the minimum.
C4_RangeOverPositiveValues ==
  (Valued /\ PositiveMethods # {}) =>
    /\ \E i \in PositiveMethods : Same(valuation.priceRange.min, FairValue(i))
    /\ \A i \in PositiveMethods : Le(valuation.priceRange.min, FairValue(i))
    /\ \E i \in PositiveMethods : Same(valuation.priceRange.max, FairValue(i))
    /\ \A i \in PositiveMethods : Ge(valuation.priceRange.max, FairValue(i))

\* exactly one method is degenerate (Graham returns 0) and the range is taken
\* over the other four
C4_Witness ==
  /\ Valued
  /\ Eq(GrahamValue, Zero)
  /\ PositiveMethods = Methods \ {5}
  /\ \A i \in PositiveMethods : IsFinite(FairValue(i))
  /\ Gt(valuation.priceRange.min, Zero)
  /\ Lt(valuation.priceRange.min, valuation.priceRange.max)

\* the sum over the years k..5 of flow(k) / (1 + wacc)^k, where the flow of
\* year k is freeCashFlow * (1 + gRev)^(k + lag)
RECURSIVE DiscountedFlows(_, _, _, _, _)
DiscountedFlows(k, fcf, wacc, gRev, lag) ==
  IF k > ProjectionYears THEN Zero
  ELSE Add(Div(Mul(fcf, Pow(Add(One, gRev), k + lag)), Pow(Add(One, wacc), k)),
           DiscountedFlows(k + 1, fcf, wacc, gRev, lag))

\* equity value per share by the DCF recurrence with year-k flow
\* freeCashFlow * (1 + gRev)^(k + lag)
RecurrenceDCF(d, wacc, gPerp, gRev, lag) ==
  LET year5 == Mul(d.freeCashFlow, Pow(Add(One, gRev), ProjectionYears + lag))
      terminal == Div(Mul(year5, Add(One, gPerp)), Sub(wacc, gPerp))
      ev == Add(DiscountedFlows(1, d.freeCashFlow, wacc, gRev, lag),
                Div(terminal, Pow(Add(One, wacc), ProjectionYears)))
  IN  Div(Sub(Add(ev, d.cashAndEquivalents), d.debt), d.sharesOutstanding)

DCFAgrees(lag) ==
  LET ref == RecurrenceDCF(data, valuation.calculatedWacc, assumptions.perpetualGrowth,
                           assumptions.projectedRevenueGrowth, lag)
  IN  Ge(ref, Zero) => Eq(DCFValue, ref)

\* C8 as claimed: the year-k flow of calcDCF is freeCashFlow * (1 + gRev)^k.
C8_DCFRecurrenceAsClaimed == Valued => DCFAgrees(0)

\* C8 as amended: calcDCF first grows the base flow one period, so the year-k
\* flow is freeCashFlow * (1 + gRev)^(k + 1); the flows are discounted at
\* (1 + wacc)^k, the terminal value is the year-5 flow * (1 + gPerp) /
\* (wacc - gPerp) discounted 5 periods, and the result is (enterprise value +
\* cash - debt) / shares whenever that is non-negative.
C8_DCFRecurrence == Valued => DCFAgrees(1)

\* freeCashFlow 1,000,000, gRev = gPerp = 5%, wacc = 12%, 100,000 shares, no
\* cash and no debt: 157.50 per share
C8_Witness ==
  /\ Valued
  /\ Eq(data.freeCashFlow, Num(1000000, 1))
  /\ Eq(data.sharesOutstanding, Num(100000, 1))
  /\ Eq(data.cashAndEquivalents, Zero) /\ Eq(data.debt, Zero)
  /\ Eq(valuation.calculatedWacc, Num(12, 100))
  /\ Eq(assumptions.perpetualGrowth, Num(5, 100))
  /\ Eq(assumptions.projectedRevenueGrowth, Num(5, 100))
  /\ Eq(DCFValue, Num(315, 2))

\* C9: calcGordon returns 0 whenever Ke <= g and EPS * (1 + g) / (Ke - g)
\* otherwise, g being the assumed perpetual growth.
C9_Gordon ==
  Valued =>
    LET g == assumptions.perpetualGrowth
    IN  IF Le(Ke, g) THEN Eq(GordonValue, Zero)
        ELSE Eq(GordonValue, Div(Mul(data.currentEPS, Add(One, g)), Sub(Ke, g)))

\* Ke = 5% and g = 8% with positive earnings: Gordon returns 0
C9_Witness ==
  /\ Valued
  /\ Eq(Ke, Num(5, 100))
  /\ Eq(assumptions.perpetualGrowth, Num(8, 100))
  /\ Gt(data.currentEPS, Zero)
  /\ Eq(GordonValue, Zero)

GrahamAgrees(bookValuePerShare) ==
  IF Le(data.currentEPS, Zero) \/ Le(bookValuePerShare, Zero) THEN Eq(GrahamValue, Zero)
  ELSE /\ Ge(GrahamValue, Zero)
       /\ Eq(Mul(GrahamValue, GrahamValue),
             Mul(Mul(Num(225, 10), data.currentEPS), bookValuePerShare))

\* C10 as claimed: the book value per share of calcGraham is the book value
\* per share of the snapshot.
C10_GrahamAsClaimed == Valued => GrahamAgrees(data.fundamentals.vpa)

\* C10 as amended: calcGraham returns 0 whenever EPS <= 0 or book value per
\* share <= 0 and otherwise the v >= 0 with v^2 = 22.5 * EPS * book value per
\* share, where book value per share is equity / sharesOutstanding when
\* sharesOutstanding > 0 and 0 otherwise.
C10_Graham ==
  Valued =>
    GrahamAgrees(IF Gt(data.sharesOutstanding, Zero)
                 THEN Div(data.equity, data.sharesOutstanding) ELSE Zero)

\* positive earnings and equity, and a book value per share in the snapshot
\* that is not equity / shares
C10_Witness ==
  /\ Valued
  /\ Gt(data.currentEPS, Zero)
  /\ Gt(data.sharesOutstanding, Zero)
  /\ Gt(data.equity, Zero)
  /\ ~Eq(data.fundamentals.vpa, Div(data.equity, data.sharesOutstanding))
  /\ Gt(GrahamValue, Zero)

EVAValue == FairValue(3)
MultiplesValue == FairValue(4)

\* the average of netIncome * sectorPE / shares and
\* (ebit * sectorEVEBITDA - debt + cash) / shares
MultiplesAverage ==
  LET byPE == Div(Mul(data.netIncome, data.sectorPE), data.sharesOutstanding)
      byEBITDA == Div(Add(Sub(Mul(data.ebit, data.sectorEVEBITDA), data.debt),
                          data.cashAndEquivalents),
                      data.sharesOutstanding)
  IN  Div(Add(byPE, byEBITDA), Num(2, 1))

\* C11: calcMultiples returns the average of the P/E estimate and the
\* EV/EBITDA estimate floored at 0, so the multiples fair value is never
\* negative.
C11_MultiplesFlooredAtZero ==
  Valued =>
    /\ Same(MultiplesValue, Max2(Zero, MultiplesAverage))
    /\ ~Lt(MultiplesValue, Zero)

\* C12: calcEVA projects EBIT two periods forward at the revenue-growth rate,
\* takes NOPAT = projected EBIT * 0.66, EVA = NOPAT - investedCapital * wacc,
\* MVA = EVA / wacc, and returns
\* max(0, (investedCapital + MVA - debt + cash) / shares).
C12_EVA ==
  Valued =>
    LET wacc == valuation.calculatedWacc
        projected == Mul(data.ebit, Pow(Add(One, assumptions.projectedRevenueGrowth), 2))
        nopat == Mul(projected, Num(66, 100))
        eva == Sub(nopat, Mul(data.investedCapital, wacc))
        mva == Div(eva, wacc)
        eqVal == Add(Sub(Add(data.investedCapital, mva), data.debt), data.cashAndEquivalents)
    IN  Same(EVAValue, Max2(Zero, Div(eqVal, data.sharesOutstanding)))

\* growing EBIT, debt and cash on the balance sheet, and a positive EVA value
C12_Witness ==
  /\ Valued
  /\ Gt(data.ebit, Zero)
  /\ Gt(assumptions.projectedRevenueGrowth, Zero)
  /\ Gt(data.debt, Zero) /\ Gt(data.cashAndEquivalents, Zero)
  /\ IsFinite(EVAValue)
  /\ Gt(EVAValue, Zero)

\* E = price * sharesOutstanding and D = debt
MarketEquity == Mul(data.price, data.sharesOutstanding)
CapitalValue == Add(MarketEquity, data.debt)

\* ke * E / (E + D) + kdNet * D / (E + D), or ke alone when E + D = 0
WaccWith(kdNet) ==
  IF Eq(CapitalValue, Zero) THEN Ke
  ELSE Add(Div(Mul(Ke, MarketEquity), CapitalValue),
           Div(Mul(kdNet, data.debt), CapitalValue))

\* C13: calculateWacc returns ke = riskFreeRate + beta * equityRiskPremium and
\* wacc = ke * E/(E+D) + kdNet * D/(E+D) with E = price * sharesOutstanding and
\* D = debt; when E + D = 0 it returns wacc = ke, a finite number.
C13_Wacc ==
  Valued =>
    LET r == calculateWacc(data, assumptions)
        kdNet == Mul(RawKd(data, assumptions, Div(data.interestExpenses, data.debt)),
                     Num(66, 100))
    IN  /\ Same(r.ke, Ke)
        /\ Same(r.wacc, WaccWith(kdNet))
        /\ Same(valuation.calculatedWacc, r.wacc)
        /\ Eq(CapitalValue, Zero) => IsFinite(r.wacc) /\ Eq(r.wacc, Ke)

\* a snapshot with E + D = 0 (E = -500, D = 500) valued at wacc = ke
C13_Witness ==
  /\ Valued
  /\ Gt(data.debt, Zero)
  /\ Eq(CapitalValue, Zero)
  /\ Eq(valuation.calculatedWacc, Ke)

\* interestExpenses / debt
InterestRatio == Div(data.interestExpenses, data.debt)

\* the ratio when it lies in the band 1% to 60%, bounds included, and the
\* assumptions' costOfDebt otherwise
BandedCostOfDebt ==
  IF Ge(InterestRatio, Num(1, 100)) /\ Le(InterestRatio, Num(60, 100))
  THEN InterestRatio ELSE assumptions.costOfDebt

\* C14: the pre-tax cost of debt of calculateWacc is interestExpenses / debt
\* whenever that ratio lies in the band 1% to 60%, bounds included, and the
\* assumptions' costOfDebt in every other case; the net cost of debt that
\* enters the WACC is that rate times (1 - 0.34).
C14_CostOfDebt ==
  Valued =>
    /\ Same(RawKd(data, assumptions, InterestRatio), BandedCostOfDebt)
    /\ Same(valuation.calculatedWacc,
            WaccWith(Mul(BandedCostOfDebt, Sub(One, Num(34, 100)))))

\* interest at exactly 1% of the debt (a bound of the band) and a WACC that
\* is not the one the default cost of debt gives
C14_Witness ==
  /\ Valued
  /\ Eq(InterestRatio, Num(1, 100))
  /\ ~Eq(InterestRatio, assumptions.costOfDebt)
  /\ ~Eq(CapitalValue, Zero)
  /\ ~Eq(valuation.calculatedWacc,
         WaccWith(Mul(assumptions.costOfDebt, Sub(One, Num(34, 100)))))

\* the configured weight of method i, in the order of results
MethodNames == << "DCF", "GORDON", "EVA", "MULTIPLES", "GRAHAM" >>
ConfiguredWeight(i) == EffectiveWeights(customWeights)[MethodNames[i]]

\* the sums of fairValue_i * w_i and of w_i over the methods of the sequence ms
RECURSIVE SumOfProducts(_)
SumOfProducts(ms) ==
  IF ms = << >> THEN Zero
  ELSE Add(Mul(FairValue(Head(ms)), ConfiguredWeight(Head(ms))), SumOfProducts(Tail(ms)))
RECURSIVE SumOfWeights(_)
SumOfWeights(ms) ==
  IF ms = << >> THEN Zero ELSE Add(ConfiguredWeight(Head(ms)), SumOfWeights(Tail(ms)))

\* the consensus over the methods of ms alone
ConsensusOver(ms) == Div(SumOfProducts(ms), SumOfWeights(ms))

\* the five methods without method i
Without(i) == SelectSeq(<< 1, 2, 3, 4, 5 >>, LAMBDA j : j # i)

\* C15: weightedFairValue is the sum over all five methods of fairValue_i * w_i
\* divided by the sum of the five weights, a method that returned 0 counting
\* with its configured weight; and a method with weight 0 contributes nothing:
\* the result equals the one obtained with that method excluded.
C15_WeightedConsensus ==
  Valued =>
    /\ Same(valuation.weightedFairValue, ConsensusOver(<< 1, 2, 3, 4, 5 >>))
    /\ \A i \in Methods :
         Eq(ConfiguredWeight(i), Zero) =>
           Same(valuation.weightedFairValue, ConsensusOver(Without(i)))

\* the cell at row i, column j, zero-indexed
CellAt(i, j) == valuation.sensitivityMatrix[i + 1][j + 1]

\* base + (k - 2) * 0.005
Stepped(base, k) == Add(base, Mul(Num(k - 2, 1), Num(5, 1000)))

\* C19: the sensitivity matrix has exactly 5 rows of 5 cells; the cell at row
\* i, column j (zero-indexed) has wacc = calculatedWacc + (i - 2) * 0.005 and
\* growth = perpetualGrowth + (j - 2) * 0.005, so rows ascend by WACC and
\* columns by growth, and its fairValue is calcDCF at that wacc and growth
\* with the projected revenue growth of the assumptions.
C19_SensitivityGrid ==
  Valued =>
    /\ Len(valuation.sensitivityMatrix) = 5
    /\ \A i \in 0..4 : Len(valuation.sensitivityMatrix[i + 1]) = 5
    /\ \A i, j \in 0..4 :
         /\ Same(CellAt(i, j).wacc, Stepped(valuation.calculatedWacc, i))
         /\ Same(CellAt(i, j).growth, Stepped(assumptions.perpetualGrowth, j))
         /\ Same(CellAt(i, j).fairValue,
                 calcDCF(data, Stepped(valuation.calculatedWacc, i),
                         Stepped(assumptions.perpetualGrowth, j),
                         assumptions.projectedRevenueGrowth))
    /\ \A i \in 0..3, j \in 0..4 : Lt(CellAt(i, j).wacc, CellAt(i + 1, j).wacc)
    /\ \A i \in 0..4, j \in 0..3 : Lt(CellAt(i, j).growth, CellAt(i, j + 1).growth)

\* a grid whose fair values fall along a column (WACC rising) and rise along
\* a row (growth rising)
C19_Witness ==
  /\ Valued
  /\ \A i, j \in 0..4 : IsFinite(CellAt(i, j).fairValue)
  /\ \A i \in 0..3 : Gt(CellAt(i, 0).fairValue, CellAt(i + 1, 0).fairValue)
  /\ \A j \in 0..3 : Lt(CellAt(0, j).fairValue, CellAt(0, j + 1).fairValue)
  /\ ~Eq(assumptions.projectedRevenueGrowth, assumptions.perpetualGrowth)


(***************************************************************************)
(* Claims about getFinancialData, over the finished calls of SpecData.     *)
(***************************************************************************)
\* every row of a non-empty list is keyed with the symbol
AllKeyed(rows, symbol) == rows # << >> /\ \A i \in 1..Len(rows) : rows[i].symbol = symbol

\* the call getFinancialData('VALE3') has finished on rows that are keyed
\* 'vale3.sa' in all four categories
C5_Case ==
  /\ gpc = "done"
  /\ ticker = VALE3
  /\ supa # Null
  /\ AllKeyed(supa.brapi, Vale3SA)
  /\ AllKeyed(supa.income, Vale3SA)
  /\ AllKeyed(supa.balance, Vale3SA)
  /\ AllKeyed(supa.cashFlow, Vale3SA)

\* C5: when the fetched rows of every category (quote, income statement,
\* balance sheet, cash flow) are keyed 'vale3.sa', getFinancialData('VALE3')
\* resolves to those rows in all four categories and returns a snapshot
\* instead of failing.
C5_LowercaseSuffixedRowsResolve ==
  C5_Case =>
    /\ outcome.status = "returned"
    /\ outcome.value.price = supa.brapi[1].regularMarketPrice
    /\ Len(outcome.value.rawIncome) = Len(supa.income)
    /\ Len(outcome.value.rawBalance) = Len(supa.balance)
    /\ Len(outcome.value.rawCashFlow) = Len(supa.cashFlow)

Categories == { "cotação", "DRE", "balanço", "fluxo de caixa" }

\* the categories that have no row for the resolved ticker, every category
\* matched as filterByTicker matches: exactly up to case, else by the root
AbsentCategories ==
  IF supa = Null THEN Categories
  ELSE { c \in Categories :
           \/ c = "cotação" /\ filterByTicker(supa.brapi, NormalizedTicker(ticker)) = << >>
           \/ c = "DRE" /\ filterByTicker(supa.income, NormalizedTicker(ticker)) = << >>
           \/ c = "balanço" /\ filterByTicker(supa.balance, NormalizedTicker(ticker)) = << >>
           \/ c = "fluxo de caixa"
              /\ filterByTicker(supa.cashFlow, NormalizedTicker(ticker)) = << >> }

\* the categories the failure names
NamedCategories ==
  IF outcome.status = "thrown" /\ outcome.value.message = "Dados incompletos"
  THEN { outcome.value.missing[i] : i \in 1..Len(outcome.value.missing) }
  ELSE { }

\* C6: getFinancialData fails if and only if at least one of the four
\* categories quote, income statement, balance sheet, cash flow has no row for
\* the resolved ticker; the failure names exactly the absent categories and no
\* snapshot is returned; the dividend history plays no part.
C6_FailsIffCategoryAbsent ==
  gpc = "done" =>
    /\ (outcome.status = "thrown") <=> (AbsentCategories # { })
    /\ outcome.status = "thrown" => NamedCategories = AbsentCategories

\* the rows of a list in every order
Permuted(rows) ==
  { [i \in 1..Len(rows) |-> rows[p[i]]] : p \in Permutations(1..Len(rows)) }

\* the fetched rows supplied in every order
Reorderings(r) ==
  { [income |-> i, balance |-> b, cashFlow |-> c, brapi |-> q, dividends |-> d] :
      i \in Permuted(r.income), b \in Permuted(r.balance), c \in Permuted(r.cashFlow),
      q \in Permuted(r.brapi), d \in Permuted(r.dividends) }

\* an outcome without the row lists a snapshot carries along as supplied
Derived(o) ==
  IF o.status = "returned"
  THEN [f \in DOMAIN o.value \ { "rawIncome", "rawBalance", "rawCashFlow", "rawDividends" } |->
          o.value[f]]
  ELSE o.value

\* C7: for any set of raw rows the snapshot is the same on every run: the
\* base rows and all derived fields depend neither on the order in which the
\* rows are supplied (rows that tie on end_date included) nor on the day of
\* the run.
C7_SameSnapshotOnEveryRun ==
  (gpc = "done" /\ supa # Null) =>
    \A r \in Reorderings(supa), day \in 1..MaxDay :
      /\ getFinancialData(ticker, r, day).status = outcome.status
      /\ Derived(getFinancialData(ticker, r, day)) = Derived(outcome)

\* the call returned a snapshot
Snapshotted == gpc = "done" /\ outcome.status = "returned"

\* C16: every snapshot returned by getFinancialData has sharesOutstanding > 0,
\* for any quote values including zero, missing or negative ones.
C16_SharesPositive ==
  Snapshotted => Gt(outcome.value.sharesOutstanding, Zero)

\* a type field that says yearly or annual
SaysYearly(type) ==
  type # Null /\ toLowerCase(type) \in { TypeYearly, << "a", "n", "n", "u", "a", "l" >> }

\* a period label that is a 4-digit year
FourDigitYear(period) ==
  Len(period) = 4 /\ \A i \in 1..4 : \E d \in 1..Len(Digits) : period[i] = Digits[d]

\* yearly as the base period selection is described: the type field says so,
\* or the period label is a 4-digit year or starts with 'FY'
CountsAsYearly(row) ==
  \/ SaysYearly(row.type)
  \/ row.period # Null /\ FourDigitYear(row.period)
  \/ row.period # Null /\ startsWith(toUpperCase(row.period), << "F", "Y" >>)

\* the rows of each statement that getFinancialData matched to the ticker
MatchedStatements ==
  { filterByTicker(supa.income, NormalizedTicker(ticker)),
    filterByTicker(supa.balance, NormalizedTicker(ticker)),
    filterByTicker(supa.cashFlow, NormalizedTicker(ticker)) }

\* C20: when the base period is selected, a statement row counts as yearly if
\* its type field says yearly/annual, or its period label is a 4-digit year or
\* starts with 'FY'; every other row counts as quarterly.
C20_YearlyRows ==
  (gpc = "done" /\ supa # Null) =>
    \A rows \in MatchedStatements : FilterYearly(rows) = SelectSeq(rows, CountsAsYearly)

(***************************************************************************)
(* Properties of the page generator (SpecGen).                             *)
(***************************************************************************)
\* a weighted fair value that is finite and strictly positive
Usable(v) == IsFinite(v) /\ Gt(v, Zero)

\* the ticker of place j of the batch that is running
BatchTicker(j) == Batch(tickers, batchStart)[j]

\* C17: generatePage writes the ticker's page and returns true only if
\* weightedFairValue is finite and strictly positive; a zero, negative, NaN or
\* infinite weightedFairValue makes it return false without writing a page.
C17_UsableValuation ==
  /\ \A p \in pages : Usable(p.weightedFairValue)
  /\ mpc = "awaiting" =>
       \A j \in 1..Len(results) :
         results[j] # "pending" =>
           (results[j] = "true" <=> \E p \in pages : p.ticker = BatchTicker(j))

\* main has left its loop
LoopOver == mpc \in { "indexing", "done" }

\* C18: a failure for one ticker never prevents another ticker of the same
\* batch or of a later batch from being processed: generatePage is called at
\* most once for each place of the list, main always reaches its end, and at
\* the end every place has had its call and success + failed is the number
\* of tickers.
C18_EveryTickerOnce ==
  /\ [](\A k \in 1..Len(tickers) : calls[k] <= 1)
  /\ [](LoopOver =>
         /\ \A k \in 1..Len(tickers) : calls[k] = 1
         /\ \A j \in 1..Len(results) : results[j] \in { "true", "false" }
         /\ success + failed = Len(tickers))
  /\ <>(mpc = "done")

\* main ended after a failure in an earlier batch and, in the last batch, a
\* failure and a page written
C18_Witness ==
  /\ mpc = "done"
  /\ Len(tickers) > BATCH_SIZE
  /\ failed > Count(results, "false")
  /\ Count(results, "false") > 0
  /\ Count(results, "true") > 0
  /\ success + failed = Len(tickers)

(***************************************************************************)
(* Further properties of getFinancialData (SpecData).                      *)
(***************************************************************************)
\* the rows of each statement matched to the ticker
TickerIncome == filterByTicker(supa.income, NormalizedTicker(ticker))
TickerBalance == filterByTicker(supa.balance, NormalizedTicker(ticker))
TickerCashFlow == filterByTicker(supa.cashFlow, NormalizedTicker(ticker))

\* the rows the base row of a statement is to be taken from: its yearly rows
\* when it has one, all its rows otherwise
BaseCandidates(rows) == IF FilterYearly(rows) # << >> THEN FilterYearly(rows) ELSE rows

\* the rows with the latest end date
LatestOf(rows) ==
  { rows[i] : i \in { i \in 1..Len(rows) :
                       \A j \in 1..Len(rows) :
                         getTime(rows[j].end_date) <= getTime(rows[i].end_date) } }

\* the snapshot has the figures of the income row r, of the balance row r, of
\* the cash-flow row r
FromIncomeRow(r) ==
  /\ Same(outcome.value.netIncome, Or(r.net_income, Zero))
  /\ Same(outcome.value.ebit, Or(r.ebit, Zero))
  /\ Same(outcome.value.revenue, Or(r.total_revenue, Zero))
FromBalanceRow(r) ==
  /\ Same(outcome.value.debt, GrossDebt(r))
  /\ Same(outcome.value.cashAndEquivalents, CashOf(r))
FromCashFlowRow(r) ==
  /\ Same(outcome.value.freeCashFlow, FreeCashFlow(r))
  /\ Same(outcome.value.depreciation, Or(r.depreciation, Zero))

\* C21: for each statement the row used for the snapshot is the yearly row
\* with the latest end date whenever the statement has a yearly row, and the
\* latest row of any cadence only when it has none.
C21_LatestYearlyRow ==
  Snapshotted =>
    /\ \E r \in LatestOf(BaseCandidates(TickerIncome)) : FromIncomeRow(r)
    /\ \E r \in LatestOf(BaseCandidates(TickerBalance)) : FromBalanceRow(r)
    /\ \E r \in LatestOf(BaseCandidates(TickerCashFlow)) : FromCashFlowRow(r)

\* the income half of C21 alone
IncomeFromLatestYearly ==
  Snapshotted => \E r \in LatestOf(BaseCandidates(TickerIncome)) : FromIncomeRow(r)

\* the quote and the base rows the snapshot is built from
ChosenQuote == FindQuote(supa.brapi, NormalizedTicker(ticker))
ChosenIncome == BaseIncome(TickerIncome)
ChosenBalance == BaseAt(TickerBalance, ChosenIncome.end_date)
ChosenCashFlow == BaseAt(TickerCashFlow, ChosenIncome.end_date)

\* the numeric input fields of the snapshot that C22 names
NumericInputs ==
  << outcome.value.price, outcome.value.debt, outcome.value.cashAndEquivalents,
     outcome.value.ebit, outcome.value.depreciation, outcome.value.equity,
     outcome.value.freeCashFlow, outcome.value.netIncome, outcome.value.revenue,
     outcome.value.interestExpenses >>

\* the fields read from the statement rows are 0 where the chosen row has no
\* value for them, and every numeric input is a finite number
StatementFieldsResolveToZero ==
  Snapshotted =>
    /\ \A k \in 1..Len(NumericInputs) : IsFinite(NumericInputs[k])
    /\ (ChosenBalance.long_term_debt = Null /\ ChosenBalance.short_long_term_debt = Null)
         => Same(outcome.value.debt, Zero)
    /\ (ChosenBalance.cash = Null /\ ChosenBalance.short_term_investments = Null)
         => Same(outcome.value.cashAndEquivalents, Zero)
    /\ ChosenIncome.ebit = Null => Same(outcome.value.ebit, Zero)
    /\ ChosenIncome.net_income = Null => Same(outcome.value.netIncome, Zero)
    /\ ChosenIncome.total_revenue = Null => Same(outcome.value.revenue, Zero)
    /\ ChosenIncome.interest_expense = Null => Same(outcome.value.interestExpenses, Zero)
    /\ ChosenCashFlow.depreciation = Null => Same(outcome.value.depreciation, Zero)
    /\ (ChosenCashFlow.total_cash_from_operating_activities = Null
        /\ ChosenCashFlow.capital_expenditures = Null)
         => Same(outcome.value.freeCashFlow, Zero)

\* C22: every numeric input field of the snapshot whose source value is
\* missing or null in the chosen quote and statement rows is 0, never NaN or
\* undefined: price, debt, cash, EBIT, depreciation, equity, operating cash
\* flow, capex, net income, revenue and interest expense.
C22_MissingResolvesToZero ==
  /\ StatementFieldsResolveToZero
  /\ Snapshotted =>
       /\ ChosenQuote.regularMarketPrice = Null => Same(outcome.value.price, Zero)
       /\ ChosenBalance.total_stockholder_equity = Null => Same(outcome.value.equity, Zero)

\* a snapshot built from a cash-flow row with no figure in it
NoFigureCase ==
  /\ Snapshotted
  /\ ChosenCashFlow.depreciation = Null
  /\ ChosenCashFlow.capital_expenditures = Null
  /\ ChosenBalance.short_term_investments = Null

\* C29: the base income, balance-sheet and cash-flow rows used to build one
\* snapshot always carry the same end date.
C29_SameEndDate ==
  Snapshotted =>
    /\ ChosenBalance.end_date = ChosenIncome.end_date
    /\ ChosenCashFlow.end_date = ChosenIncome.end_date

\* the rows share the end date when the balance sheet and the cash flow each
\* have a yearly row with the end date of the base income row
SameEndDateWhenFound ==
  (/\ Snapshotted
   /\ FindDate(Yearly(TickerBalance), ChosenIncome.end_date) # Undefined
   /\ FindDate(Yearly(TickerCashFlow), ChosenIncome.end_date) # Undefined) =>
    /\ ChosenBalance.end_date = ChosenIncome.end_date
    /\ ChosenCashFlow.end_date = ChosenIncome.end_date
    /\ FromBalanceRow(ChosenBalance)
    /\ FromCashFlowRow(ChosenCashFlow)

\* a snapshot from the income of the first quarter of 2024, the only income
\* row, and the balance sheet of the year 2023, the only balance row
QuarterlyIncomeYearlyBalance ==
  /\ Snapshotted
  /\ Len(TickerIncome) = 1
  /\ Len(TickerBalance) = 1
  /\ ChosenIncome.end_date = Mar2024
  /\ ChosenBalance.end_date = Dec2023
  /\ FromIncomeRow(ChosenIncome)
  /\ FromBalanceRow(ChosenBalance)

(***************************************************************************)
(* Further properties of the valuation engine (SpecVal).                   *)
(***************************************************************************)
\* a tax rate other than the 34% of the snapshots and the assumption sets
OtherTaxRate == Num(25, 100)

\* two results of performValuation with identical WACC, fair values, weighted
\* fair value and sensitivity grid
SameFigures(v, w) ==
  /\ v.calculatedWacc = w.calculatedWacc
  /\ \A m \in Methods : v.results[m].fairValue = w.results[m].fairValue
  /\ v.weightedFairValue = w.weightedFairValue
  /\ v.sensitivityMatrix = w.sensitivityMatrix

(***************************************************************************)
(* The engine run again on the same inputs with another tax rate           *)
(* (SpecTax): the caller values a snapshot, changes assumptions.taxRate    *)
(* or the taxRate field of the snapshot and nothing else, and values it    *)
(* again; valuation holds the result of the run before until the second    *)
(* run replaces it.                                                        *)
(***************************************************************************)
ChooseTaxInputs ==
  /\ pc = "input"
  /\ data' \in Snapshots
  /\ assumptions' \in AssumptionSets
  /\ customWeights' = Undefined
  /\ pc' = "ready"
  /\ UNCHANGED << valuation, dataVars, genVars >>

\* the caller changes one of the two tax rates of a valued snapshot
ChangeTaxRate ==
  /\ pc = "valued"
  /\ Same(data.taxRate, TaxRate)
  /\ Same(assumptions.taxRate, TaxRate)
  /\ \/ /\ assumptions' = [assumptions EXCEPT !.taxRate = OtherTaxRate]
        /\ data' = data
     \/ /\ data' = [data EXCEPT !.taxRate = OtherTaxRate]
        /\ assumptions' = assumptions
  /\ pc' = "ready"
  /\ UNCHANGED << customWeights, valuation, dataVars, genVars >>

NextTax == ChooseTaxInputs \/ PerformValuation \/ ChangeTaxRate

SpecTax == Init /\ [][NextTax]_vars

\* C23: the tax rate used by the engine is fixed at 34%: a run of
\* performValuation that differs from the run before only in
\* assumptions.taxRate, or only in the taxRate field of the snapshot, returns
\* the same WACC, the same five fair values, the same weighted fair value and
\* the same sensitivity grid as the run before.
C23_TaxRateFixed ==
  [][(pc = "ready" /\ pc' = "valued" /\ valuation # None)
       => SameFigures(valuation, valuation')]_vars

\* a second run where the tax rate matters: the tax rate of the assumptions
\* changed, debt in the capital structure, a WACC below the cost of equity
\* and a positive EVA value
C23_Witness ==
  /\ Valued
  /\ Same(assumptions.taxRate, OtherTaxRate)
  /\ Gt(data.debt, Zero)
  /\ Lt(valuation.calculatedWacc, Ke)
  /\ Gt(FairValue(3), Zero)
  /\ IsFinite(valuation.weightedFairValue)

\* the second run after a change of the taxRate field of the snapshot
SnapshotTaxRateChanged ==
  Valued /\ Same(data.taxRate, OtherTaxRate) /\ Gt(data.debt, Zero)

\* C26: in every result of performValuation priceRange.min and
\* priceRange.max are finite and priceRange.min <= priceRange.max, also when
\* no method produced a strictly positive fair value.
C26_RangeFiniteAndOrdered ==
  Valued =>
    /\ IsFinite(valuation.priceRange.min)
    /\ IsFinite(valuation.priceRange.max)
    /\ Le(valuation.priceRange.min, valuation.priceRange.max)

\* the range is finite and ordered when some method gave a strictly positive
\* value and the strictly positive values are finite
RangeOfPositiveValues ==
  (Valued /\ PositiveMethods # {} /\ \A m \in PositiveMethods : IsFinite(FairValue(m))) =>
    /\ IsFinite(valuation.priceRange.min)
    /\ IsFinite(valuation.priceRange.max)
    /\ Le(valuation.priceRange.min, valuation.priceRange.max)

\* all five fair values are finite and none is strictly positive
NoPositiveValue ==
  /\ Valued
  /\ PositiveMethods = {}
  /\ \A m \in Methods : IsFinite(FairValue(m))

\* the range of a valuation without a strictly positive value is empty
EmptyRange ==
  NoPositiveValue =>
    /\ valuation.priceRange.min = Inf(1)
    /\ valuation.priceRange.max = Inf(-1)

\* the places of a row or a column of the sensitivity matrix, zero-indexed
GridSteps == 0..4

\* C27: whenever the base WACC is strictly greater than the perpetual growth
\* rate, every one of the 25 sensitivity cells has a cell WACC strictly
\* greater than its cell growth and a finite fairValue.
C27_GridSpreadPositive ==
  (Valued /\ Gt(valuation.calculatedWacc, assumptions.perpetualGrowth)) =>
    \A r \in GridSteps, c \in GridSteps :
      /\ Gt(CellAt(r, c).wacc, CellAt(r, c).growth)
      /\ IsFinite(CellAt(r, c).fairValue)

\* the spread between the base WACC and the perpetual growth
Spread == Sub(valuation.calculatedWacc, assumptions.perpetualGrowth)

\* the widest step apart two cells can be from the base spread: 2 * 0.005 down
\* in WACC and 2 * 0.005 up in growth
GridReach == Num(2, 100)

\* with a base spread above 0.02 every cell has a positive spread, and its
\* fairValue is finite for a snapshot with a share count other than 0
GridSpreadAboveReach ==
  (Valued /\ Gt(Spread, GridReach)) =>
    \A r \in GridSteps, c \in GridSteps :
      /\ Gt(CellAt(r, c).wacc, CellAt(r, c).growth)
      /\ ~Eq(data.sharesOutstanding, Zero) => IsFinite(CellAt(r, c).fairValue)

\* a positive base spread of at most 0.02 on a snapshot with positive price
\* and share count: the corner cell of the lowest WACC and the highest growth
\* has no positive spread
NarrowSpread ==
  /\ Valued
  /\ Gt(data.price, Zero)
  /\ Gt(data.sharesOutstanding, Zero)
  /\ Gt(Spread, Zero)
  /\ Le(Spread, GridReach)
  /\ Le(CellAt(0, 4).wacc, CellAt(0, 4).growth)

\* the weighted fair value lies between the fair values of the methods lo
\* and hi, the smallest and the largest of the five
Between(lo, hi) ==
  /\ \A m \in Methods : Le(FairValue(lo), FairValue(m)) /\ Le(FairValue(m), FairValue(hi))
  /\ Le(FairValue(lo), valuation.weightedFairValue)
  /\ Le(valuation.weightedFairValue, FairValue(hi))

\* the weights in use are non-negative and their sum is positive
ProperWeights ==
  /\ \A f \in { "DCF", "GORDON", "EVA", "MULTIPLES", "GRAHAM" } :
       Ge(EffectiveWeights(customWeights)[f], Zero)
  /\ Gt(TotalW(EffectiveWeights(customWeights)), Zero)

\* C30: for non-negative weights with a positive sum, weightedFairValue lies
\* between the smallest and the largest of the five method fair values, for
\* every snapshot and assumption set.
C30_ConvexCombination ==
  (Valued /\ ProperWeights) => \E lo \in Methods, hi \in Methods : Between(lo, hi)

\* the same when the five fair values are finite
ConvexWhenFinite ==
  (Valued /\ ProperWeights /\ \A m \in Methods : IsFinite(FairValue(m))) =>
    \E lo \in Methods, hi \in Methods : Between(lo, hi)

\* every set of weights the model values with is non-negative with a positive
\* sum
WeightsAreProper == Valued => ProperWeights

\* five finite fair values that are not all equal, the weighted fair value
\* strictly between the smallest and the largest
StrictlyInside ==
  /\ Valued
  /\ \A m \in Methods : IsFinite(FairValue(m))
  /\ \E lo \in Methods, hi \in Methods :
       /\ Between(lo, hi)
       /\ Lt(FairValue(lo), valuation.weightedFairValue)
       /\ Lt(valuation.weightedFairValue, FairValue(hi))

(***************************************************************************)
(* Further properties of the generator (SpecGen).                          *)
(***************************************************************************)
\* the number of batches of a list of n tickers
NumBatches(n) == (n + BATCH_SIZE - 1) \div BATCH_SIZE

\* the generatePage calls in flight
InFlight == Count(results, "pending")

\* C24: main processes the ticker list in consecutive batches of at most 5
\* tickers in list order: at most 5 page generations are in flight at any
\* time, the calls made so far are those of the places up to the end of the
\* current batch, no call is started while a call of the batch before is in
\* flight, main has slept 300 ms once before each batch but the first, and
\* it does not sleep after the last batch.
C24_BatchesOfFive ==
  /\ [](/\ InFlight <= BATCH_SIZE
        /\ batchStart % BATCH_SIZE = 0
        /\ mpc \in { "awaiting", "sleeping" } =>
             /\ Len(results) = Min(BATCH_SIZE, Len(tickers) - batchStart)
             /\ \A k \in 1..Len(tickers) :
                  calls[k] = IF k <= batchStart + BATCH_SIZE THEN 1 ELSE 0
        /\ mpc = "awaiting" => slept = DELAY_MS * (batchStart \div BATCH_SIZE)
        /\ mpc = "sleeping" =>
             /\ batchStart + BATCH_SIZE < Len(tickers)
             /\ slept = DELAY_MS * (batchStart \div BATCH_SIZE + 1)
        /\ LoopOver =>
             slept = IF tickers = << >> THEN 0
                     ELSE DELAY_MS * (NumBatches(Len(tickers)) - 1))
  /\ [][calls' # calls => InFlight = 0]_vars

\* main has left the loop after three batches, the last one not full, and two
\* delays
C24_Witness ==
  /\ LoopOver
  /\ Len(tickers) > 2 * BATCH_SIZE
  /\ Len(results) < BATCH_SIZE
  /\ slept = 2 * DELAY_MS
  /\ \A k \in 1..Len(tickers) : calls[k] = 1

\* the tickers of the list ts whose generatePage returns true, place by place
RECURSIVE ReturnedTrue(_)
ReturnedTrue(ts) ==
  IF ts = << >> THEN << >>
  ELSE (IF pageResult[Head(ts)].ok = "true" THEN << Head(ts) >> ELSE << >>)
       \o ReturnedTrue(Tail(ts))

\* the places of the list main has counted the results of
Counted ==
  CASE mpc = "awaiting" -> batchStart
    [] mpc = "sleeping" -> batchStart + Len(results)
    [] OTHER -> Len(tickers)

\* the number of places of the list ts that hold the ticker t
Places(ts, t) == Cardinality({ k \in 1..Len(ts) : ts[k] = t })

\* generated holds, in list order, one entry for each place of the list whose
\* call returned true, whatever the order the calls of a batch returned in;
\* its length is the success counter, and the sitemap and tickers.json are
\* written from it only if it is not empty
GeneratedByPlace ==
  /\ mpc # "start" =>
       /\ generated = ReturnedTrue(SubSeq(tickers, 1, Counted))
       /\ Len(generated) = success
  /\ site # None =>
       /\ LoopOver
       /\ generated # << >>
       /\ site.sitemap = generated
       /\ site.index \in { << >>, generated }
  /\ (mpc = "done" /\ generated # << >>) => (site # None /\ site.index = generated)

\* C25: whatever the completion order of the page generations of a batch,
\* generated holds exactly the tickers whose generatePage returned true, each
\* once, in the order of the ticker list, its length is the success counter,
\* and sitemap.xml, robots.txt and tickers.json are written only when at least
\* one ticker succeeded.
C25_GeneratedEachOnce ==
  /\ GeneratedByPlace
  /\ \A t \in Listed : Places(generated, t) <= 1

\* main has ended with pages generated in two batches and failures between them
GeneratedCase ==
  /\ mpc = "done"
  /\ Len(tickers) > BATCH_SIZE
  /\ Len(generated) >= 3
  /\ failed >= 2
  /\ site # None

(***************************************************************************)
(* getFinancialData on data that holds two share classes of one company    *)
(* (SpecLookup): the ticker asked for is one of the two classes or a third *)
(* one that the data does not hold.                                        *)
(***************************************************************************)
VALE11 == << "V", "A", "L", "E", "1", "1" >>

ClassTickers == { VALE3, VALE5, VALE11 }

ClassIncomeLists ==
  { << IncomeRow(VALE3, Dec2023, Year2023, Null, N(200), N(150), N(-40), N(1000)) >>,
    << IncomeRow(VALE5, Dec2023, Year2023, Null, N(70), N(50), N(-5), N(400)) >>,
    << IncomeRow(VALE3, Dec2023, Year2023, Null, N(200), N(150), N(-40), N(1000)),
       IncomeRow(VALE5, Dec2023, Year2023, Null, N(70), N(50), N(-5), N(400)) >>,
    << IncomeRow(VALE5, Dec2023, Year2023, Null, N(70), N(50), N(-5), N(400)),
       IncomeRow(VALE3, Dec2023, Year2023, Null, N(200), N(150), N(-40), N(1000)) >> }

ClassBalanceLists ==
  { << BalanceRow(VALE3, Dec2023, Year2023, Null, N(300), N(100), N(50), Null, N(500)) >>,
    << BalanceRow(VALE5, Dec2023, Year2023, Null, N(80), N(20), N(10), Null, N(200)) >>,
    << BalanceRow(VALE3, Dec2023, Year2023, Null, N(300), N(100), N(50), Null, N(500)),
       BalanceRow(VALE5, Dec2023, Year2023, Null, N(80), N(20), N(10), Null, N(200)) >> }

ClassCashFlowLists ==
  { << CashFlowRow(VALE3, Dec2023, Year2023, Null, N(180), N(-80), N(30)) >>,
    << CashFlowRow(VALE5, Dec2023, Year2023, Null, N(60), N(-20), N(10)) >>,
    << CashFlowRow(VALE5, Dec2023, Year2023, Null, N(60), N(-20), N(10)),
       CashFlowRow(VALE3, Dec2023, Year2023, Null, N(180), N(-80), N(30)) >> }

ClassQuoteLists ==
  { << QuoteRow(VALE3, N(10), N(1000), Null, N(2), N(5)) >>,
    << QuoteRow(VALE5, N(12), Null, N(90), N(2), N(5)) >>,
    << QuoteRow(VALE5, N(12), Null, N(90), N(2), N(5)),
       QuoteRow(VALE3, N(10), N(1000), Null, N(2), N(5)) >>,
    << QuoteRow(VALE3, N(10), N(1000), Null, N(2), N(5)),
       QuoteRow(VALE5, N(12), Null, N(90), N(2), N(5)) >> }

\* what fetchFinancials resolves to
ClassFetchResults ==
  { [income |-> il, balance |-> bl, cashFlow |-> cl, brapi |-> ql, dividends |-> << >>] :
      il \in ClassIncomeLists, bl \in ClassBalanceLists, cl \in ClassCashFlowLists,
      ql \in ClassQuoteLists }

CallForClass ==
  /\ gpc = "idle"
  /\ ticker' \in ClassTickers
  /\ gpc' = "awaiting"
  /\ UNCHANGED << supa, now, outcome, valVars, genVars >>

ResumeWithClasses ==
  /\ gpc = "awaiting"
  /\ supa' \in ClassFetchResults
  /\ outcome' = getFinancialData(ticker, supa', now)
  /\ gpc' = "done"
  /\ UNCHANGED << ticker, now, valVars, genVars >>

NextLookup == CallForClass \/ Tick \/ ResumeWithClasses

SpecLookup == Init /\ [][NextLookup]_vars

\* the symbols of the rows of a list
SymbolsOf(rows) == { toUpperCase(rows[k].symbol) : k \in 1..Len(rows) }

\* the symbols of the statement rows and of the quote selected for the ticker
SelectedSymbols ==
  SymbolsOf(TickerIncome) \cup SymbolsOf(TickerBalance) \cup SymbolsOf(TickerCashFlow)
    \cup { toUpperCase(ChosenQuote.symbol) }

\* C28: the income-statement, balance-sheet and cash-flow rows and the quote
\* selected by getFinancialData for one requested ticker all belong to one
\* single symbol: the prefix fallback never mixes rows of different share
\* classes.
C28_OneSymbol ==
  Snapshotted => Cardinality(SelectedSymbols) = 1

\* exact matches take precedence: a statement that has rows of the ticker
\* asked for gives those rows and no other, and a quote of the ticker asked
\* for is the quote selected
ExactTakesPrecedence ==
  Snapshotted =>
    /\ FilterExact(supa.income, NormalizedTicker(ticker)) # << >> =>
         SymbolsOf(TickerIncome) = { NormalizedTicker(ticker) }
    /\ FilterExact(supa.balance, NormalizedTicker(ticker)) # << >> =>
         SymbolsOf(TickerBalance) = { NormalizedTicker(ticker) }
    /\ FilterExact(supa.cashFlow, NormalizedTicker(ticker)) # << >> =>
         SymbolsOf(TickerCashFlow) = { NormalizedTicker(ticker) }
    /\ FindSymbol(supa.brapi, NormalizedTicker(ticker)) # Undefined =>
         ChosenQuote.symbol = NormalizedTicker(ticker)

\* a snapshot for a ticker the data does not hold, built from the income row
\* of one share class and the quote of the other
MixedClasses ==
  /\ Snapshotted
  /\ ticker = VALE11
  /\ ChosenIncome.symbol = VALE3
  /\ ChosenQuote.symbol = VALE5
=============================================================================
